---------------------------- MODULE Spec2Model ----------------------------
(***************************************************************************)
(* Chunk indexing and retrieval engine: the FAISS-backed flat index store  *)
(* (vectorstore/faiss_store.py), the store factory                         *)
(* (vectorstore/vector_store.py), the text chunker (ingestion/chunker.py), *)
(* the retriever (rag/retriever.py) and the embedder                       *)
(* (embeddings/embedder.py).                                               *)
(***************************************************************************)
EXTENDS Integers, Sequences, FiniteSets, TLC

(***************************************************************************)
(* Bounds of the model.                                                    *)
(***************************************************************************)
\* longest embedding vector
MaxDim == 2
\* largest vector component
MaxVal == 1
\* most documents in one call
MaxBatch == 2
\* most side-table entries the store is driven to
MaxSlots == 2

Ids == {"a", "b"}
\* (text, meta) pairs a document may carry
Payloads == {<<"t1", "m1">>, <<"t2", "m2">>}

(***************************************************************************)
(* Values.                                                                 *)
(***************************************************************************)
\* Python None where an int is expected (self.dim)
NoDim == 0 - 1
\* a doc dict without the "embedding" key
NoKey == << 0 - 1 >>

\* embedding vectors: every width up to MaxDim, all components equal
Vecs == {[i \in 1..d |-> v] : d \in 1..MaxDim, v \in 0..MaxVal}

\* docs as passed to add_documents / upsert_documents
Docs == {[chunk_id |-> c, text |-> p[1], meta |-> p[2], embedding |-> e] :
            c \in Ids, p \in Payloads, e \in Vecs}
\* docs that lack the "embedding" key
KeylessDocs == {[chunk_id |-> c, text |-> "t1", meta |-> "m1", embedding |-> NoKey] : c \in Ids}

\* the doc lists of a call: every list of well-formed docs up to MaxBatch, and
\* the one-element lists of a doc without embedding
DocLists == UNION {[1..n -> Docs] : n \in 0..MaxBatch} \cup {<<d>> : d \in KeylessDocs}

\* self.index = None
NoIndex == [present |-> FALSE, d |-> 0, vecs |-> <<>>]

\* self.meta = {}
EmptyMeta == [k \in {} |-> [chunk_id |-> "", meta |-> "", text |-> ""]]

\* a file of the store directory: missing, unreadable after a broken write, or whole
NoFile == [state |-> "missing"]
CorruptFile == [state |-> "corrupt"]
IndexFile(idx) == [state |-> "ok", d |-> idx.d, vecs |-> idx.vecs]
MetaFile(m) == [state |-> "ok", table |-> m]

\* outcomes of one file write: done, failed before touching the file, failed midway
WriteOutcomes == {"ok", "untouched", "partial"}
\* the environment of one call: how its file writes and unlinks end
IOs == [windex : WriteOutcomes, wmeta : WriteOutcomes, uindex : BOOLEAN, umeta : BOOLEAN]
IOok == [windex |-> "ok", wmeta |-> "ok", uindex |-> TRUE, umeta |-> TRUE]

VARIABLES
    index,   \* FaissStore.index: the native flat L2 index
    dim,     \* FaissStore.dim
    meta,    \* FaissStore.meta: slot number -> {chunk_id, meta, text}
    files,   \* the two persisted files
    ret      \* how the last call ended

storeVars == <<index, dim, meta, files, ret>>

VARIABLES
    text_sentences,           \* the sentences of the text, each a list of words
    arg_chunk_size,           \* the chunk_size argument (0: not given)
    arg_overlap,              \* the overlap argument (0: not given)
    chunk_size, overlap,      \* split_into_chunks: the values in use after defaulting
    chunks,                   \* the chunks emitted so far
    current_chunk_sentences,  \* the working buffer
    current_word_count,
    chunk_index,
    sent_i,                   \* i: index of the next sentence
    words, word_idx,          \* the sliding window over an oversized sentence
    cpc                       \* where split_into_chunks is

chunkVars == <<text_sentences, arg_chunk_size, arg_overlap, chunk_size, overlap, chunks,
               current_chunk_sentences, current_word_count, chunk_index, sent_i, words,
               word_idx, cpc>>

VARIABLES
    upserter,  \* a thread inside upsert_documents: its position and its locals
    searcher   \* a thread inside search: its position, its locals, what it has read

threadVars == <<upserter, searcher>>

VARIABLES
    saver      \* the process around persist(): idle, between the two writes, or crashed

VARIABLES
    factory    \* a get_vector_store call: its position, its argument, what it constructed

VARIABLES
    retriever, \* a Retriever and its search call: position, arguments, what the backend gave
    embedder   \* an embed_texts / embed_chunks call: position, texts, vectors so far

callVars == <<retriever, embedder>>

VARIABLES
    chroma,    \* a ChromaStore: its collection and how the last call ended
    tokenizer, \* a _simple_sentence_tokenize call: its text and the sentences it returned
    rebuilder  \* a rebuild_index call: its position and what its steps did

moreVars == <<chroma, tokenizer, rebuilder>>

\* the store as one value
Store == [index |-> index, dim |-> dim, meta |-> meta, files |-> files]

(***************************************************************************)
(* FaissStore                                                              *)
(***************************************************************************)
\* faiss.IndexFlatL2(d): an empty index of dimension d
IndexFlatL2(d) == [present |-> TRUE, d |-> d, vecs |-> <<>>]

\* index.add(vecs): the python wrapper asserts the width of the array
NativeAddOk(idx, d) == d = idx.d
IndexAdd(idx, vs) == [idx EXCEPT !.vecs = @ \o vs]

\* index.ntotal
NTotal(idx) == Len(idx.vecs)

Ok(st, op, rebuilt) == [st |-> st, ret |-> [op |-> op, ok |-> TRUE, err |-> "", rebuilt |-> rebuilt]]
Raise(st, op, err, rebuilt) == [st |-> st, ret |-> [op |-> op, ok |-> FALSE, err |-> err, rebuilt |-> rebuilt]]

\* _validate_docs: every doc has "chunk_id" and "embedding"
ValidDocs(docs) == \A i \in 1..Len(docs) : docs[i].embedding # NoKey

\* np.array(rows, dtype="float32") followed by n, dim = .shape succeeds:
\* at least one row and all rows of one length
Rectangular(rows) ==
    /\ Len(rows) > 0
    /\ \A i \in 1..Len(rows) : Len(rows[i]) = Len(rows[1])

Embeddings(docs) == [i \in 1..Len(docs) |-> docs[i].embedding]

\* the side-table record of a doc
MetaRec(d) == [chunk_id |-> d.chunk_id, meta |-> d.meta, text |-> d.text]

\* MetaPut numbering the new slots from start + 1
MetaPut_SkipsSlot(m, start, docs) ==
    [k \in DOMAIN m \cup (start + 1 .. start + Len(docs)) |->
        IF k \in start + 1 .. start + Len(docs) THEN MetaRec(docs[k - start]) ELSE m[k]]

\* for i, d in enumerate(docs): self.meta[str(start + i)] = {...}
MetaPut(m, start, docs) ==
    [k \in DOMAIN m \cup (start .. start + Len(docs) - 1) |->
        IF k \in start .. start + Len(docs) - 1 THEN MetaRec(docs[k - start + 1]) ELSE m[k]]

WriteFile(old, new, outcome) ==
    CASE outcome = "ok" -> new
      [] outcome = "untouched" -> old
      [] OTHER -> CorruptFile

\* _save_index_and_meta: the index file (when there is an index), then the meta
\* file; a failed write is logged and the other write still happens
SaveIndexAndMeta(st, io) ==
    LET f1 == IF st.index.present
              THEN [st.files EXCEPT !.index = WriteFile(@, IndexFile(st.index), io.windex)]
              ELSE st.files
    IN [st EXCEPT !.files = [f1 EXCEPT !.meta = WriteFile(@, MetaFile(st.meta), io.wmeta)]]

\* the unlink pair of delete and clear: one try block, the first failure skips the rest
UnlinkFiles(fs, io) ==
    IF fs.index.state # "missing" /\ ~io.uindex THEN fs
    ELSE IF fs.meta.state # "missing" /\ ~io.umeta THEN [fs EXCEPT !.index = NoFile]
    ELSE [index |-> NoFile, meta |-> NoFile]

\* add_documents writing the side table before it compares the dimensions
add_documents_op_MetaFirst(st, docs, io, op, rebuilt) ==
    IF ~ValidDocs(docs) THEN Raise(st, op, "ValueError", rebuilt)
    ELSE IF ~Rectangular(Embeddings(docs)) THEN Raise(st, op, "ValueError", rebuilt)
    ELSE
      LET d == Len(docs[1].embedding)
          st0 == [st EXCEPT !.meta = MetaPut(@, Cardinality(DOMAIN st.meta), docs)]
          st1 == IF ~st.index.present
                 THEN [st0 EXCEPT !.index = IndexFlatL2(d), !.dim = d]
                 ELSE st0
      IN IF st.index.present /\ d # st.dim THEN Raise(st0, op, "ValueError", rebuilt)
         ELSE IF ~NativeAddOk(st1.index, d) THEN Raise(st1, op, "AssertionError", rebuilt)
         ELSE Ok(SaveIndexAndMeta([st1 EXCEPT !.index = IndexAdd(@, Embeddings(docs))], io),
                 op, rebuilt)

\* add_documents: validate, shape the array, create the index on first use or
\* compare the dimension, append to index and side table, save
add_documents_op(st, docs, io, op, rebuilt) ==
    IF ~ValidDocs(docs) THEN Raise(st, op, "ValueError", rebuilt)
    ELSE IF ~Rectangular(Embeddings(docs)) THEN Raise(st, op, "ValueError", rebuilt)
    ELSE
      LET d == Len(docs[1].embedding)
          st1 == IF ~st.index.present
                 THEN [st EXCEPT !.index = IndexFlatL2(d), !.dim = d]
                 ELSE st
      IN IF st.index.present /\ d # st.dim THEN Raise(st, op, "ValueError", rebuilt)
         ELSE IF ~NativeAddOk(st1.index, d) THEN Raise(st1, op, "AssertionError", rebuilt)
         ELSE
           LET start_idx == Cardinality(DOMAIN st1.meta)
               st2 == [st1 EXCEPT !.index = IndexAdd(@, Embeddings(docs)),
                                  !.meta = MetaPut(@, start_idx, docs)]
           IN Ok(SaveIndexAndMeta(st2, io), op, rebuilt)

add_documents(st, docs, io) == add_documents_op(st, docs, io, "add_documents", FALSE)


\* the "embedding": None of an item rebuilt from the side table
NoneEmb == << 0 - 2 >>

StoredIds(m) == {m[k].chunk_id : k \in DOMAIN m}

Max(S) == CHOOSE x \in S : \A y \in S : y <= x
Min(S) == CHOOSE x \in S : \A y \in S : x <= y

\* existing_map = {v["chunk_id"]: int(k) for k, v in self.meta.items()}: the
\* side table is filled in slot order, so the last slot of an id wins
ExistingMap(m) ==
    [c \in StoredIds(m) |-> Max({k \in DOMAIN m : m[k].chunk_id = c})]

DocIndexes(docs, c) == {i \in 1..Len(docs) : docs[i].chunk_id = c}
\* replace_map[slot] = d, assigned in docs order: the last doc of an id wins
LastDocWith(docs, c) == docs[Max(DocIndexes(docs, c))]
\* next((x for x in docs if x["chunk_id"] == c), None)
FirstDocWith(docs, c) == docs[Min(DocIndexes(docs, c))]

NotStored(m, docs) ==
    LET stored == StoredIds(m) IN SelectSeq(docs, LAMBDA d : d.chunk_id \notin stored)

\* the slots upsert_documents replaces: keys of replace_map
ReplaceSlots(m, docs) ==
    LET existing_map == ExistingMap(m)
    IN {existing_map[docs[i].chunk_id] :
          i \in {j \in 1..Len(docs) : docs[j].chunk_id \in DOMAIN existing_map}}

\* all_items: slot i is the replacing doc, or the stored record with no embedding
AllItems(m, docs, slots) ==
    [i \in 1..Cardinality(DOMAIN m) |->
        IF (i - 1) \in slots
        THEN LastDocWith(docs, m[i - 1].chunk_id)
        ELSE [chunk_id |-> m[i - 1].chunk_id, text |-> m[i - 1].text,
              meta |-> m[i - 1].meta, embedding |-> NoneEmb]]

\* the vector list of the rebuild; an item without embedding takes the first doc of its id
RebuildVectors(items, docs) ==
    [i \in 1..Len(items) |->
        IF items[i].embedding # NoneEmb THEN items[i].embedding
        ELSE FirstDocWith(docs, items[i].chunk_id).embedding]

\* the part of upsert_documents after the rebuilt index and side table are assigned
upsert_append_new(st1, new_docs, io) ==
    IF new_docs = <<>> THEN Ok(SaveIndexAndMeta(st1, io), "upsert_documents", TRUE)
    ELSE IF \E i \in 1..Len(new_docs) : Len(new_docs[i].embedding) # Len(new_docs[1].embedding)
    THEN Raise(st1, "upsert_documents", "ValueError", TRUE)
    ELSE IF ~NativeAddOk(st1.index, Len(new_docs[1].embedding))
    THEN Raise(st1, "upsert_documents", "AssertionError", TRUE)
    ELSE
      LET st2 == [st1 EXCEPT !.index = IndexAdd(@, Embeddings(new_docs)),
                             !.meta = MetaPut(@, Cardinality(DOMAIN st1.meta), new_docs)]
      IN Ok(SaveIndexAndMeta(st2, io), "upsert_documents", TRUE)

\* the rebuild path of upsert_documents (replace_map is not empty)
upsert_rebuild(st, docs, slots, io) ==
    LET total == Cardinality(DOMAIN st.meta)
    IN IF \E i \in 0..total - 1 : i \notin DOMAIN st.meta
       THEN Raise(st, "upsert_documents", "KeyError", TRUE)
       ELSE
         LET all_items == AllItems(st.meta, docs, slots)
         IN IF \E i \in 1..total : /\ all_items[i].embedding = NoneEmb
                                   /\ DocIndexes(docs, all_items[i].chunk_id) = {}
            THEN Raise(st, "upsert_documents", "ValueError", TRUE)
            ELSE
              LET vectors == RebuildVectors(all_items, docs)
              IN IF ~Rectangular(vectors)
                 THEN Raise(st, "upsert_documents", "ValueError", TRUE)
                 ELSE
                   LET st1 == [st EXCEPT
                                 !.index = IndexAdd(IndexFlatL2(Len(vectors[1])), vectors),
                                 !.meta = [k \in 0..total - 1 |-> MetaRec(all_items[k + 1])]]
                   IN upsert_append_new(st1, NotStored(st.meta, docs), io)

upsert_documents(st, docs, io) ==
    IF ~ValidDocs(docs) THEN Raise(st, "upsert_documents", "ValueError", FALSE)
    ELSE LET slots == ReplaceSlots(st.meta, docs)
         IN IF slots # {} THEN upsert_rebuild(st, docs, slots, io)
            ELSE add_documents_op(st, NotStored(st.meta, docs), io, "upsert_documents", FALSE)

\* delete emptying the store whatever would have to be kept
delete_EmptiesAlways(st, ids, io) ==
    Ok([st EXCEPT !.index = NoIndex, !.meta = EmptyMeta,
                  !.files = UnlinkFiles(@, io)], "delete", FALSE)

\* delete(ids): empties the store when nothing is kept, refuses otherwise
delete(st, ids, io) ==
    LET kept == {k \in DOMAIN st.meta : st.meta[k].chunk_id \notin ids}
    IN IF kept = {}
       THEN Ok([st EXCEPT !.index = NoIndex, !.meta = EmptyMeta,
                          !.files = UnlinkFiles(@, io)], "delete", FALSE)
       ELSE Raise(st, "delete", "NotImplementedError", FALSE)

\* clear() that forgets to reset self.dim, as delete does
clear_KeepsDim(st, io) ==
    Ok([index |-> NoIndex, dim |-> st.dim, meta |-> EmptyMeta,
        files |-> UnlinkFiles(st.files, io)], "clear", FALSE)

\* clear(): removes the files, then drops index, side table and dimension
clear(st, io) ==
    Ok([index |-> NoIndex, dim |-> NoDim, meta |-> EmptyMeta,
        files |-> UnlinkFiles(st.files, io)], "clear", FALSE)

\* persist()
persist(st, io) == Ok(SaveIndexAndMeta(st, io), "persist", FALSE)

\* get_stats(): count and dim
get_stats(st) == [count |-> Cardinality(DOMAIN st.meta), dim |-> st.dim]

(***************************************************************************)
(* The store driven by one caller: every call is one step.                 *)
(***************************************************************************)
Apply(r) ==
    /\ Cardinality(DOMAIN r.st.meta) <= MaxSlots
    /\ index' = r.st.index
    /\ dim' = r.st.dim
    /\ meta' = r.st.meta
    /\ files' = r.st.files
    /\ ret' = r.ret
    /\ UNCHANGED <<chunkVars, threadVars, saver, factory, callVars, moreVars>>

AddDocuments(docs, io) ==
    \E st \in {Store} : \E r \in {add_documents(st, docs, io)} : Apply(r)
UpsertDocuments(docs, io) ==
    \E st \in {Store} : \E r \in {upsert_documents(st, docs, io)} : Apply(r)
Delete(ids, io) ==
    \E st \in {Store} : \E r \in {delete(st, ids, io)} : Apply(r)
Clear(io) ==
    \E st \in {Store} : \E r \in {clear(st, io)} : Apply(r)
Persist(io) ==
    \E st \in {Store} : \E r \in {persist(st, io)} : Apply(r)

\* FaissStore.__init__ over an empty directory
StoreInit ==
    /\ index = NoIndex
    /\ dim = NoDim
    /\ meta = EmptyMeta
    /\ files = [index |-> NoFile, meta |-> NoFile]
    /\ ret = [op |-> "init", ok |-> TRUE, err |-> "", rebuilt |-> FALSE]

\* no split_into_chunks call is under way
ChunkerIdle ==
    /\ text_sentences = <<>>
    /\ arg_chunk_size = 0 /\ arg_overlap = 0
    /\ chunk_size = 0 /\ overlap = 0
    /\ chunks = <<>>
    /\ current_chunk_sentences = <<>>
    /\ current_word_count = 0
    /\ chunk_index = 0
    /\ sent_i = 0
    /\ words = <<>> /\ word_idx = 0
    /\ cpc = "idle"

\* no thread is inside upsert_documents or search
IdleUpserter == [pc |-> "idle", docs |-> <<>>, pre |-> [index |-> NoIndex, meta |-> EmptyMeta], k |-> 0]
IdleSearcher == [pc |-> "idle", q |-> <<>>, top_k |-> 0, I |-> <<>>, pos |-> 0,
                 read_index |-> NoIndex, read_metas |-> {}, hits |-> <<>>]
ThreadsIdle == upserter = IdleUpserter /\ searcher = IdleSearcher

\* no get_vector_store call is under way
IdleFactory == [pc |-> "idle", env |-> "chroma", store_type |-> "", st |-> "",
                chroma_ok |-> FALSE, faiss_ok |-> FALSE, constructed |-> <<>>, result |-> ""]

\* an argument of Retriever.search that is None
NoMin == [given |-> FALSE, v |-> <<0, 1>>]
IdleRetriever == [pc |-> "idle", via |-> "", self_min |-> <<0, 1>>, query |-> <<>>, top_k |-> 0,
                  min_arg |-> NoMin, min_sim |-> <<0, 1>>,
                  backend |-> [raises |-> FALSE, results |-> <<>>],
                  out |-> <<>>, raised |-> FALSE]
IdleEmbedder == [pc |-> "idle", texts |-> <<>>, i |-> 0, results |-> <<>>, pairs |-> <<>>]
CallsIdle == retriever = IdleRetriever /\ embedder = IdleEmbedder

\* an empty collection, and no call under way
EmptyCollection == [k \in {} |-> [text |-> "", meta |-> "", embedding |-> <<>>]]
IdleChroma == [engine |-> "rejects", coll |-> EmptyCollection, cdim |-> NoDim,
               ret |-> [op |-> "init", ok |-> TRUE], found |-> <<>>, hits |-> <<>>]
IdleTokenizer == [pc |-> "idle", text |-> <<>>, sentences |-> <<>>]
IdleRebuilder == [pc |-> "idle", force |-> FALSE, cleared |-> FALSE, inserted_total |-> 0]
MoreIdle == chroma = IdleChroma /\ tokenizer = IdleTokenizer /\ rebuilder = IdleRebuilder

vars == <<storeVars, chunkVars, threadVars, saver, factory, callVars, moreVars>>

Init == StoreInit /\ ChunkerIdle /\ ThreadsIdle /\ saver = "idle" /\ MoreIdle /\ factory = IdleFactory /\ CallsIdle

Next ==
    \/ \E docs \in DocLists : AddDocuments(docs, IOok)
    \/ \E docs \in DocLists : UpsertDocuments(docs, IOok)
    \/ \E ids \in SUBSET Ids : Delete(ids, IOok)
    \/ Clear(IOok)
    \/ Persist(IOok)

Spec == Init /\ [][Next]_vars

(***************************************************************************)
(* Properties of the store.                                                *)
(***************************************************************************)
IdsOf(docs) == {docs[i].chunk_id : i \in 1..Len(docs)}

\* the store holds chunk id c exactly as doc d gives it
StoredAs(st, d) ==
    \E k \in DOMAIN st.meta :
        /\ st.meta[k] = MetaRec(d)
        /\ k + 1 \in 1..NTotal(st.index)
        /\ st.index.vecs[k + 1] = d.embedding

\* what the store holds for chunk id c: the (record, vector) pairs of its slots
Held(st, c) ==
    {<<st.meta[k], IF k + 1 \in 1..NTotal(st.index) THEN st.index.vecs[k + 1] ELSE NoneEmb>> :
        k \in {j \in DOMAIN st.meta : st.meta[j].chunk_id = c}}

\* C1: after any sequence of add_documents, upsert_documents, delete and clear
\* calls on a store that started empty, raising calls included, the side table
\* and the native index hold the same number of entries and the side-table
\* keys are exactly the slot numbers 0..n-1.
C1_IndexMetaInStep ==
    /\ Cardinality(DOMAIN meta) = NTotal(index)
    /\ DOMAIN meta = 0 .. NTotal(index) - 1

\* a call raised after the rebuild replaced index and side table, and they still agree
C1_Witness ==
    /\ ret.op = "upsert_documents" /\ ~ret.ok /\ ret.rebuilt
    /\ NTotal(index) >= 1
    /\ files.index.state = "ok" /\ files.index.vecs # index.vecs

\* docs for a proper subset of the ids stored in m, one doc per id, of width d
ProperSubsetDocs(m, d, docs) ==
    /\ Cardinality(StoredIds(m)) >= 2
    /\ ValidDocs(docs)
    /\ IdsOf(docs) # {}
    /\ IdsOf(docs) \subseteq StoredIds(m)
    /\ IdsOf(docs) # StoredIds(m)
    /\ Cardinality(IdsOf(docs)) = Len(docs)
    /\ \A i \in 1..Len(docs) : Len(docs[i].embedding) = d

\* C3: on a store holding several ids, upsert_documents with docs for a proper
\* subset of the stored ids succeeds, the entry count is unchanged, each upserted
\* id is stored with its new vector, text and metadata, and every other id keeps
\* its previous vector, text and metadata.
C3_UpsertOfSubsetSucceeds ==
    [][\A docs \in DocLists :
         (ProperSubsetDocs(meta, index.d, docs) /\ UpsertDocuments(docs, IOok))
         => /\ ret'.ok
            /\ get_stats(Store)'.count = get_stats(Store).count
            /\ \A i \in 1..Len(docs) : StoredAs(Store', docs[i])
            /\ \A c \in StoredIds(meta) \ IdsOf(docs) : Held(Store', c) = Held(Store, c)]_vars

\* C4: when upsert_documents fails after it has taken the rebuild path, index,
\* side table and dimension are what they were before the call.
C4_FailedRebuildLeavesStore ==
    [][(ret'.op = "upsert_documents" /\ ret'.rebuilt /\ ~ret'.ok)
         => (index' = index /\ meta' = meta /\ dim' = dim)]_vars

\* some vector of docs has a length other than d
CarriesOtherLength(docs, d) ==
    ValidDocs(docs) /\ \E i \in 1..Len(docs) : Len(docs[i].embedding) # d

\* C8: in a non-empty store all stored vectors have one length D, get_stats
\* reports D (the dimension of the native index), and every add_documents or
\* upsert_documents call carrying a vector of another length is rejected.
C8_OneDimension ==
    /\ [](NTotal(index) > 0 =>
            /\ \A i \in 1..NTotal(index) : Len(index.vecs[i]) = index.d
            /\ get_stats(Store).dim = index.d)
    /\ [][\A docs \in DocLists :
            ( /\ NTotal(index) > 0
              /\ CarriesOtherLength(docs, index.d)
              /\ AddDocuments(docs, IOok) \/ UpsertDocuments(docs, IOok) )
            => ~ret'.ok]_vars

C10_DeleteAllOrNothing ==
    \A ids \in SUBSET Ids :
        LET r == delete(Store, ids, IOok)
        IN IF StoredIds(meta) \subseteq ids
           THEN r.ret.ok /\ r.st.meta = EmptyMeta /\ ~r.st.index.present
           ELSE /\ ~r.ret.ok
                /\ r.st = Store
                /\ \A c \in StoredIds(meta) \ ids : Held(r.st, c) = Held(Store, c)

\* a partial delete was refused on a store holding an id outside ids
C10_Witness ==
    /\ ret.op = "delete" /\ ~ret.ok /\ ret.err = "NotImplementedError"
    /\ Cardinality(StoredIds(meta)) >= 2
    /\ files.meta.state = "ok" /\ files.meta.table = meta

(***************************************************************************)
(* The chunker: split_into_chunks (ingestion/chunker.py), one step per     *)
(* iteration of its loops.  A sentence is the list of its words; a word is *)
(* its position in the text.                                               *)
(***************************************************************************)
\* most sentences of a text, most words of a sentence
MaxSentences == 3
MaxSentWords == 4
\* largest chunk_size and overlap arguments
MaxChunkSize == 4
MaxOverlapArg == 3
\* chunks emitted before the run is cut off
MaxChunks == 8

\* CHUNK_SIZE and CHUNK_OVERLAP (the defaults of the environment variables)
CHUNK_SIZE == 400
CHUNK_OVERLAP == 50

MinOf(a, b) == IF a <= b THEN a ELSE b

RECURSIVE SumLens(_)
SumLens(lens) == IF lens = <<>> THEN 0 ELSE lens[1] + SumLens(Tail(lens))

\* the tokenized text whose sentences have the word counts lens
SentencesOf(lens) ==
    [j \in 1..Len(lens) |->
        [k \in 1..lens[j] |-> SumLens(SubSeq(lens, 1, j - 1)) + k]]

SentenceLens == UNION {[1..n -> 1..MaxSentWords] : n \in 0..MaxSentences}

RECURSIVE Flatten(_)
\* " ".join(sentences_list) read as words
Flatten(ss) == IF ss = <<>> THEN <<>> ELSE ss[1] \o Flatten(Tail(ss))

\* a slice that takes its end index too
Slice_Inclusive(xs, a, b) == SubSeq(xs, a + 1, MinOf(b + 1, Len(xs)))

\* xs[a:b]
Slice(xs, a, b) == SubSeq(xs, a + 1, MinOf(b, Len(xs)))

\* xs[-n:]
LastN(xs, n) == IF n = 0 THEN xs ELSE SubSeq(xs, Len(xs) - n + 1, Len(xs))

\* create_chunk(sentences_list, idx)
create_chunk(sentences_list, idx) == [chunk_index |-> idx, text |-> Flatten(sentences_list)]

RECURSIVE OverlapWords_Appends(_, _, _)
\* the overlap_words loop putting the words of each earlier sentence behind the
\* ones it has
OverlapWords_Appends(sents, ov, overlap_words) ==
    IF sents = <<>> THEN overlap_words
    ELSE LET words_in_sent == sents[Len(sents)]
             remaining_overlap == ov - Len(overlap_words)
         IN IF remaining_overlap <= 0 THEN overlap_words
            ELSE LET take_count == MinOf(Len(words_in_sent), remaining_overlap)
                 IN OverlapWords_Appends(SubSeq(sents, 1, Len(sents) - 1), ov,
                                         overlap_words \o LastN(words_in_sent, take_count))

RECURSIVE OverlapWords(_, _, _)
\* the overlap_words loop: sentences from the last backward, words from the end
\* of each, until `ov` words are taken
OverlapWords(sents, ov, overlap_words) ==
    IF sents = <<>> THEN overlap_words
    ELSE LET words_in_sent == sents[Len(sents)]
             remaining_overlap == ov - Len(overlap_words)
         IN IF remaining_overlap <= 0 THEN overlap_words
            ELSE LET take_count == MinOf(Len(words_in_sent), remaining_overlap)
                 IN OverlapWords(SubSeq(sents, 1, Len(sents) - 1), ov,
                                 LastN(words_in_sent, take_count) \o overlap_words)

\* the start of the call without the clamp of line 84
ChunkStart_NoClamp ==
    /\ cpc = "start"
    /\ IF text_sentences = <<>>
       THEN /\ cpc' = "done"
            /\ UNCHANGED <<chunk_size, overlap>>
       ELSE /\ chunk_size' = (IF arg_chunk_size # 0 THEN arg_chunk_size ELSE CHUNK_SIZE)
            /\ overlap' = (IF arg_overlap # 0 THEN arg_overlap ELSE CHUNK_OVERLAP)
            /\ cpc' = "loop"
    /\ UNCHANGED <<text_sentences, arg_chunk_size, arg_overlap, chunks,
                   current_chunk_sentences, current_word_count, chunk_index, sent_i,
                   words, word_idx>>
    /\ UNCHANGED <<storeVars, threadVars, saver, factory, callVars, moreVars>>

\* lines 77-102: the empty-text return, the defaults, the overlap clamp
ChunkStart ==
    /\ cpc = "start"
    /\ IF text_sentences = <<>>
       THEN /\ cpc' = "done"
            /\ UNCHANGED <<chunk_size, overlap>>
       ELSE /\ chunk_size' = (IF arg_chunk_size # 0 THEN arg_chunk_size ELSE CHUNK_SIZE)
            /\ overlap' = MinOf(IF arg_overlap # 0 THEN arg_overlap ELSE CHUNK_OVERLAP,
                                chunk_size' - 1)
            /\ cpc' = "loop"
    /\ UNCHANGED <<text_sentences, arg_chunk_size, arg_overlap, chunks,
                   current_chunk_sentences, current_word_count, chunk_index, sent_i,
                   words, word_idx>>
    /\ UNCHANGED <<storeVars, threadVars, saver, factory, callVars, moreVars>>

\* lines 123-135: a sentence of chunk_size words or more: flush the buffer and
\* start the window over the sentence
LoopOversized ==
    /\ cpc = "loop" /\ sent_i < Len(text_sentences)
    /\ Len(text_sentences[sent_i + 1]) >= chunk_size
    /\ Len(chunks) < MaxChunks
    /\ IF current_chunk_sentences # <<>>
       THEN /\ chunks' = Append(chunks, create_chunk(current_chunk_sentences, chunk_index))
            /\ chunk_index' = chunk_index + 1
       ELSE UNCHANGED <<chunks, chunk_index>>
    /\ current_chunk_sentences' = <<>>
    /\ current_word_count' = 0
    /\ words' = text_sentences[sent_i + 1]
    /\ word_idx' = 0
    /\ cpc' = "window"
    /\ UNCHANGED <<text_sentences, arg_chunk_size, arg_overlap, chunk_size, overlap, sent_i>>
    /\ UNCHANGED <<storeVars, threadVars, saver, factory, callVars, moreVars>>

\* the window moved on by chunk_size, without the overlap
WindowStep_FullStride ==
    /\ cpc = "window"
    /\ Len(chunks) < MaxChunks
    /\ chunks' = Append(chunks, [chunk_index |-> chunk_index,
                                 text |-> Slice(words, word_idx, word_idx + chunk_size)])
    /\ chunk_index' = chunk_index + 1
    /\ word_idx' = word_idx + chunk_size
    /\ IF word_idx' >= Len(words)
       THEN sent_i' = sent_i + 1 /\ cpc' = "loop"
       ELSE UNCHANGED <<sent_i, cpc>>
    /\ UNCHANGED <<text_sentences, arg_chunk_size, arg_overlap, chunk_size, overlap,
                   current_chunk_sentences, current_word_count, words>>
    /\ UNCHANGED <<storeVars, threadVars, saver, factory, callVars, moreVars>>

\* lines 136-155: one window of the oversized sentence
WindowStep ==
    /\ cpc = "window"
    /\ Len(chunks) < MaxChunks
    /\ chunks' = Append(chunks, [chunk_index |-> chunk_index,
                                 text |-> Slice(words, word_idx, word_idx + chunk_size)])
    /\ chunk_index' = chunk_index + 1
    /\ word_idx' = word_idx + (chunk_size - overlap)
    /\ IF word_idx' >= Len(words)
       THEN sent_i' = sent_i + 1 /\ cpc' = "loop"
       ELSE UNCHANGED <<sent_i, cpc>>
    /\ UNCHANGED <<text_sentences, arg_chunk_size, arg_overlap, chunk_size, overlap,
                   current_chunk_sentences, current_word_count, words>>
    /\ UNCHANGED <<storeVars, threadVars, saver, factory, callVars, moreVars>>

\* lines 158-162: the sentence fits the buffer
LoopAppend ==
    /\ cpc = "loop" /\ sent_i < Len(text_sentences)
    /\ Len(text_sentences[sent_i + 1]) < chunk_size
    /\ current_word_count + Len(text_sentences[sent_i + 1]) <= chunk_size
    /\ current_chunk_sentences' = Append(current_chunk_sentences, text_sentences[sent_i + 1])
    /\ current_word_count' = current_word_count + Len(text_sentences[sent_i + 1])
    /\ sent_i' = sent_i + 1
    /\ UNCHANGED <<text_sentences, arg_chunk_size, arg_overlap, chunk_size, overlap, chunks,
                   chunk_index, words, word_idx, cpc>>
    /\ UNCHANGED <<storeVars, threadVars, saver, factory, callVars, moreVars>>

\* lines 163-193: the sentence does not fit: flush the buffer, seed the next
\* buffer with the overlap words; the sentence is looked at again
LoopFlush ==
    /\ cpc = "loop" /\ sent_i < Len(text_sentences)
    /\ Len(text_sentences[sent_i + 1]) < chunk_size
    /\ current_word_count + Len(text_sentences[sent_i + 1]) > chunk_size
    /\ Len(chunks) < MaxChunks
    /\ IF current_chunk_sentences # <<>>
       THEN /\ chunks' = Append(chunks, create_chunk(current_chunk_sentences, chunk_index))
            /\ chunk_index' = chunk_index + 1
       ELSE UNCHANGED <<chunks, chunk_index>>
    /\ LET overlap_words ==
               IF overlap > 0 /\ current_chunk_sentences # <<>>
               THEN OverlapWords(current_chunk_sentences, overlap, <<>>)
               ELSE <<>>
       IN IF overlap_words # <<>>
          THEN /\ current_chunk_sentences' = <<overlap_words>>
               /\ current_word_count' = Len(overlap_words)
          ELSE /\ current_chunk_sentences' = <<>>
               /\ current_word_count' = 0
    /\ UNCHANGED <<text_sentences, arg_chunk_size, arg_overlap, chunk_size, overlap, sent_i,
                   words, word_idx, cpc>>
    /\ UNCHANGED <<storeVars, threadVars, saver, factory, callVars, moreVars>>

\* lines 195-202: the loop is over: flush what is left and return
ChunkFinish ==
    /\ cpc = "loop" /\ sent_i >= Len(text_sentences)
    /\ IF current_chunk_sentences # <<>>
       THEN chunks' = Append(chunks, create_chunk(current_chunk_sentences, chunk_index))
       ELSE UNCHANGED chunks
    /\ cpc' = "done"
    /\ UNCHANGED <<text_sentences, arg_chunk_size, arg_overlap, chunk_size, overlap,
                   current_chunk_sentences, current_word_count, chunk_index, sent_i, words,
                   word_idx>>
    /\ UNCHANGED <<storeVars, threadVars, saver, factory, callVars, moreVars>>

\* a call split_into_chunks(text, chunk_size, overlap)
ChunkInit ==
    /\ StoreInit /\ ThreadsIdle /\ saver = "idle" /\ MoreIdle /\ factory = IdleFactory /\ CallsIdle
    /\ \E lens \in SentenceLens : text_sentences = SentencesOf(lens)
    /\ arg_chunk_size \in 0..MaxChunkSize
    /\ arg_overlap \in 0..MaxOverlapArg
    /\ chunk_size = 0 /\ overlap = 0
    /\ chunks = <<>>
    /\ current_chunk_sentences = <<>>
    /\ current_word_count = 0
    /\ chunk_index = 0
    /\ sent_i = 0
    /\ words = <<>> /\ word_idx = 0
    /\ cpc = "start"

ChunkNext ==
    \/ ChunkStart
    \/ LoopOversized
    \/ WindowStep
    \/ LoopAppend
    \/ LoopFlush
    \/ ChunkFinish

SpecChunk == ChunkInit /\ [][ChunkNext]_vars

\* what the control flow of the main loop reads
LoopState == <<sent_i, current_chunk_sentences, current_word_count>>

\* C2: split_into_chunks terminates for every text, chunk_size >= 1 and
\* overlap >= 0: each iteration of the main loop either consumes a sentence or
\* leaves a buffer into which the next sentence fits, and so the loop is never
\* twice in one state.
C2_LoopProgresses ==
    [][(cpc = "loop" /\ cpc' = "loop" /\ arg_chunk_size >= 1)
         => /\ (sent_i' > sent_i
                  \/ current_word_count' + Len(text_sentences[sent_i + 1]) <= chunk_size)
            /\ LoopState' # LoopState]_vars

(***************************************************************************)
(* search, and a search that runs while another thread is inside the       *)
(* rebuild of upsert_documents.  Each read or write of self.index and      *)
(* self.meta is one step.                                                  *)
(***************************************************************************)
\* largest top_k of a search
MaxTopK == 2

\* rec.get(...) of a missing key
NoneStr == "None"

RECURSIVE SqDistFrom(_, _, _)
SqDistFrom(q, v, j) ==
    IF j > Len(q) THEN 0
    ELSE (q[j] - v[j]) * (q[j] - v[j]) + SqDistFrom(q, v, j + 1)
\* the distance IndexFlatL2 reports: the squared Euclidean distance
SqDist(q, v) == SqDistFrom(q, v, 1)

\* index.search(q, top_k) asserts the width of the query
NativeSearchOk(idx, q) == Len(q) = idx.d

\* index.search(q, top_k): the top_k nearest slots by distance, nearest first, as
\* (distance, slot) pairs; equal distances come in an order the engine chooses
NativeSearch(idx, q, top_k) ==
    LET n == NTotal(idx)
        m == MinOf(top_k, n)
        dist(slot) == SqDist(q, idx.vecs[slot + 1])
        picks == {I \in [1..m -> 0..n - 1] :
                    /\ \A a, b \in 1..m : a < b => (I[a] # I[b] /\ dist(I[a]) <= dist(I[b]))
                    /\ \A slot \in 0..n - 1 :
                          (\A a \in 1..m : I[a] # slot) => \A a \in 1..m : dist(I[a]) <= dist(slot)}
    IN {[p \in 1..m |-> [dist |-> dist(I[p]), idx |-> I[p]]] : I \in picks}

\* score = 1.0 / (1.0 + dist) if dist >= 0 else 0.0, as a fraction
Score(dist) == IF dist >= 0 THEN <<1, 1 + dist>> ELSE <<0, 1>>

\* the hit looked up one slot too far (a 1-based key)
HitOf_NextSlot(m, pair) ==
    IF pair.idx + 1 \in DOMAIN m
    THEN [chunk_id |-> m[pair.idx + 1].chunk_id, score |-> Score(pair.dist),
          text |-> m[pair.idx + 1].text, meta |-> m[pair.idx + 1].meta]
    ELSE [chunk_id |-> NoneStr, score |-> Score(pair.dist), text |-> NoneStr, meta |-> NoneStr]

\* lines 200-203: the hit of one (distance, slot) pair against side table m
HitOf(m, pair) ==
    IF pair.idx \in DOMAIN m
    THEN [chunk_id |-> m[pair.idx].chunk_id, score |-> Score(pair.dist),
          text |-> m[pair.idx].text, meta |-> m[pair.idx].meta]
    ELSE [chunk_id |-> NoneStr, score |-> Score(pair.dist), text |-> NoneStr, meta |-> NoneStr]

\* docs and queries of the threads
ThreadDocs == {d \in Docs : d.text = "t1"}
ThreadDocLists == UNION {[1..n -> ThreadDocs] : n \in 1..MaxBatch}

\* the locals of the rebuild, from the side table the call started with
UpAllItems == AllItems(upserter.pre.meta, upserter.docs,
                       ReplaceSlots(upserter.pre.meta, upserter.docs))
UpVectors == RebuildVectors(UpAllItems, upserter.docs)
UpNewDocs == NotStored(upserter.pre.meta, upserter.docs)
UpTotal == Cardinality(DOMAIN upserter.pre.meta)

\* upsert_documents(docs) gets as far as line 170 on the rebuild path
ReachesRebuild(m, docs) ==
    /\ ValidDocs(docs)
    /\ ReplaceSlots(m, docs) # {}
    /\ \A c \in StoredIds(m) : DocIndexes(docs, c) # {}
    /\ Rectangular(RebuildVectors(AllItems(m, docs, ReplaceSlots(m, docs)), docs))

\* lines 130-170: validation, replace_map, all_items, vectors: nothing is written yet
UpsertBegin(docs) ==
    /\ upserter.pc = "idle"
    /\ ReachesRebuild(meta, docs)
    /\ Cardinality(DOMAIN meta) + Len(NotStored(meta, docs)) <= MaxSlots
    /\ upserter' = [pc |-> "l171", docs |-> docs, pre |-> [index |-> index, meta |-> meta], k |-> 0]
    /\ UNCHANGED <<storeVars, searcher, chunkVars, saver, factory, callVars, moreVars>>

\* line 171: self.index = IndexFlatL2(d)
UpsertNewIndex ==
    /\ upserter.pc = "l171"
    /\ index' = IndexFlatL2(Len(UpVectors[1]))
    /\ upserter' = [upserter EXCEPT !.pc = "l172"]
    /\ UNCHANGED <<dim, meta, files, ret, searcher, chunkVars, saver, factory, callVars, moreVars>>

\* line 172: self.index.add(vecs_np)
UpsertFillIndex ==
    /\ upserter.pc = "l172"
    /\ index' = IndexAdd(index, UpVectors)
    /\ upserter' = [upserter EXCEPT !.pc = "l177"]
    /\ UNCHANGED <<dim, meta, files, ret, searcher, chunkVars, saver, factory, callVars, moreVars>>

\* lines 174-177: self.meta = new_meta
UpsertSwapMeta ==
    /\ upserter.pc = "l177"
    /\ meta' = [k \in 0..UpTotal - 1 |-> MetaRec(UpAllItems[k + 1])]
    /\ upserter' = [upserter EXCEPT !.pc = IF UpNewDocs = <<>> THEN "l185" ELSE "l180"]
    /\ UNCHANGED <<index, dim, files, ret, searcher, chunkVars, saver, factory, callVars, moreVars>>

\* lines 180-182: the new docs go into the index, or the call raises
UpsertAddNew ==
    /\ upserter.pc = "l180"
    /\ IF /\ \A j \in 1..Len(UpNewDocs) :
                Len(UpNewDocs[j].embedding) = Len(UpNewDocs[1].embedding)
          /\ NativeAddOk(index, Len(UpNewDocs[1].embedding))
       THEN /\ index' = IndexAdd(index, Embeddings(UpNewDocs))
            /\ upserter' = [upserter EXCEPT !.pc = "l184"]
            /\ UNCHANGED ret
       ELSE /\ ret' = Raise(Store, "upsert_documents",
                            IF NativeAddOk(index, Len(UpNewDocs[1].embedding))
                            THEN "ValueError" ELSE "AssertionError", TRUE).ret
            /\ upserter' = [upserter EXCEPT !.pc = "done"]
            /\ UNCHANGED index
    /\ UNCHANGED <<dim, meta, files, searcher, chunkVars, saver, factory, callVars, moreVars>>

\* lines 183-184: one side-table entry of a new doc
UpsertPutNew ==
    /\ upserter.pc = "l184"
    /\ meta' = MetaPut(meta, UpTotal + upserter.k, <<UpNewDocs[upserter.k + 1]>>)
    /\ upserter' = [upserter EXCEPT !.k = @ + 1,
                                    !.pc = IF upserter.k + 1 = Len(UpNewDocs) THEN "l185" ELSE "l184"]
    /\ UNCHANGED <<index, dim, files, ret, searcher, chunkVars, saver, factory, callVars, moreVars>>

\* lines 185-186: save and return
UpsertSave ==
    /\ upserter.pc = "l185"
    /\ files' = SaveIndexAndMeta(Store, IOok).files
    /\ ret' = Ok(Store, "upsert_documents", TRUE).ret
    /\ upserter' = [upserter EXCEPT !.pc = "done"]
    /\ UNCHANGED <<index, dim, meta, searcher, chunkVars, saver, factory, callVars, moreVars>>

\* line 192: search(query_vector, top_k) reads self.index
SearchBegin(q, top_k) ==
    /\ searcher.pc \in {"idle", "done", "raised"}
    /\ searcher' = [IdleSearcher EXCEPT !.q = q, !.top_k = top_k,
                                        !.pc = IF index.present THEN "l195" ELSE "done"]
    /\ UNCHANGED <<storeVars, upserter, chunkVars, saver, factory, callVars, moreVars>>

\* line 195: D, I = self.index.search(q, top_k), on the index that is there now
SearchNative ==
    /\ searcher.pc = "l195"
    /\ IF NativeSearchOk(index, searcher.q)
       THEN \E DI \in NativeSearch(index, searcher.q, searcher.top_k) :
               searcher' = [searcher EXCEPT !.I = DI, !.read_index = index,
                                            !.pc = IF DI = <<>> THEN "done" ELSE "l200"]
       ELSE searcher' = [searcher EXCEPT !.pc = "raised"]
    /\ UNCHANGED <<storeVars, upserter, chunkVars, saver, factory, callVars, moreVars>>

\* lines 197-203: one hit: rec = self.meta.get(str(idx), {}), on the side table
\* that is there now
SearchHit ==
    /\ searcher.pc = "l200"
    /\ searcher' = [searcher EXCEPT
                      !.hits = Append(@, HitOf(meta, searcher.I[searcher.pos + 1])),
                      !.read_metas = @ \cup {meta},
                      !.pos = @ + 1,
                      !.pc = IF searcher.pos + 1 = Len(searcher.I) THEN "done" ELSE "l200"]
    /\ UNCHANGED <<storeVars, upserter, chunkVars, saver, factory, callVars, moreVars>>

ThreadInit ==
    /\ StoreInit /\ ChunkerIdle /\ ThreadsIdle /\ saver = "idle" /\ MoreIdle /\ factory = IdleFactory /\ CallsIdle

ThreadNext ==
    \/ /\ upserter.pc = "idle" /\ searcher.pc = "idle"
       /\ \E docs \in ThreadDocLists : AddDocuments(docs, IOok)
    \/ \E docs \in ThreadDocLists : UpsertBegin(docs)
    \/ UpsertNewIndex
    \/ UpsertFillIndex
    \/ UpsertSwapMeta
    \/ UpsertAddNew
    \/ UpsertPutNew
    \/ UpsertSave
    \/ \E q \in Vecs, top_k \in 1..MaxTopK : SearchBegin(q, top_k)
    \/ SearchNative
    \/ SearchHit

SpecThreads == ThreadInit /\ [][ThreadNext]_vars

\* the (index, side table) pair a finished upsert_documents(docs) leaves
AfterUpsert ==
    LET st == upsert_documents([index |-> upserter.pre.index, dim |-> dim,
                                meta |-> upserter.pre.meta, files |-> files],
                               upserter.docs, IOok).st
    IN [index |-> st.index, meta |-> st.meta]

\* the step-wise rebuild ends where the call taken as a whole ends
UpsertStepsAgree ==
    upserter.pc = "done" => [index |-> index, meta |-> meta] = AfterUpsert

\* C5: a search that runs concurrently with an upsert_documents rebuild sees
\* the complete pre-rebuild (index, side table) pair or the complete
\* post-rebuild pair: no empty or partly filled index, no new index with the
\* old side table, no index slot without side-table entry.
C5_SearchSeesOneVersion ==
    (searcher.pc = "done" /\ upserter.pc # "idle" /\ searcher.read_index.present)
    => /\ \E pair \in {upserter.pre, AfterUpsert} :
             /\ searcher.read_index = pair.index
             /\ \A m \in searcher.read_metas : m = pair.meta
       /\ \A p \in 1..Len(searcher.hits) : searcher.hits[p].chunk_id # NoneStr

(***************************************************************************)
(* persist() and _save_index_and_meta on a disk whose writes can fail and  *)
(* in a process that can stop between the two writes.                      *)
(***************************************************************************)
\* the calls whose writes can fail: every outcome of the two writes, unlinks done
WriteIOs == {io \in IOs : io.uindex /\ io.umeta}

\* docs of the calls between the saves
SaveDocs == {d \in Docs : d.text = "t1" /\ Len(d.embedding) = 1}
SaveDocLists == UNION {[1..n -> SaveDocs] : n \in 1..MaxBatch}

\* lines 79-83 of a persist() call: the index file, when there is an index
SaveWriteIndex(outcome) ==
    /\ saver = "idle"
    /\ files' = IF index.present
                THEN [files EXCEPT !.index = WriteFile(@, IndexFile(index), outcome)]
                ELSE files
    /\ saver' = "l84"
    /\ UNCHANGED <<index, dim, meta, ret, chunkVars, threadVars, factory, callVars, moreVars>>

\* lines 84-88: the meta file; persist() returns
SaveWriteMeta(outcome) ==
    /\ saver = "l84"
    /\ files' = [files EXCEPT !.meta = WriteFile(@, MetaFile(meta), outcome)]
    /\ ret' = Ok(Store, "persist", FALSE).ret
    /\ saver' = "idle"
    /\ UNCHANGED <<index, dim, meta, chunkVars, threadVars, factory, callVars, moreVars>>

\* the process stops: the files stay as they are and nothing runs any more
Crash ==
    /\ saver # "crashed"
    /\ saver' = "crashed"
    /\ UNCHANGED <<storeVars, chunkVars, threadVars, factory, callVars, moreVars>>

SaveInit ==
    /\ StoreInit /\ ChunkerIdle /\ ThreadsIdle /\ saver = "idle" /\ MoreIdle /\ factory = IdleFactory /\ CallsIdle

SaveNext ==
    \/ saver = "idle" /\ \E docs \in SaveDocLists, io \in WriteIOs : AddDocuments(docs, io)
    \/ saver = "idle" /\ \E docs \in SaveDocLists, io \in WriteIOs : UpsertDocuments(docs, io)
    \/ saver = "idle" /\ \E ids \in SUBSET Ids : Delete(ids, IOok)
    \/ saver = "idle" /\ Clear(IOok)
    \/ \E outcome \in WriteOutcomes : SaveWriteIndex(outcome)
    \/ \E outcome \in WriteOutcomes : SaveWriteMeta(outcome)
    \/ Crash

SpecSave == SaveInit /\ [][SaveNext]_vars

\* the number of entries a file describes
IndexFileEntries == Len(files.index.vecs)
MetaFileEntries == Cardinality(DOMAIN files.meta.table)

\* C6: whatever write fails and wherever the process stops during
\* persist / _save_index_and_meta, the two files on disk are the same version:
\* a readable index file and a readable metadata file describe the same number
\* of entries.
C6_FilesSameVersion ==
    (files.index.state = "ok" /\ files.meta.state = "ok")
    => IndexFileEntries = MetaFileEntries

(***************************************************************************)
(* get_vector_store: the factory of vector_store.py, one constructor call  *)
(* per step.                                                               *)
(***************************************************************************)
\* values of VECTOR_STORE_TYPE after line 19 has lower-cased it
EnvTypes == {"chroma", "faiss", "qdrant"}
\* the store_type argument; "" stands for None (both are false in `or`)
ArgTypes == {"", "chroma", "faiss", "Chroma", "FAISS", "qdrant"}

\* str.lower() on the names above
Lower(s) ==
    CASE s = "Chroma" -> "chroma"
      [] s = "FAISS" -> "faiss"
      [] OTHER -> s

\* what the call returns or raises
ChromaStore == "ChromaStore"
FaissStoreInst == "FaissStore"
NoStoreError == "RuntimeError: No vector store available (chroma failed, faiss failed)"
UnknownTypeError == "ValueError: Unknown VECTOR_STORE_TYPE"
FaissInitError == "exception of FaissStore()"

\* line 26: st = (store_type or _STORE_TYPE).lower(); chroma_ok and faiss_ok say
\* whether the constructors of this call can succeed
GetVectorStore(store_type, chroma_ok, faiss_ok) ==
    /\ factory.pc \in {"idle", "returned", "raised"}
    /\ factory' = [pc |-> "l27", env |-> factory.env, store_type |-> store_type,
                   st |-> Lower(IF store_type # "" THEN store_type ELSE factory.env),
                   chroma_ok |-> chroma_ok, faiss_ok |-> faiss_ok,
                   constructed |-> <<>>, result |-> ""]
    /\ UNCHANGED <<storeVars, chunkVars, threadVars, saver, callVars, moreVars>>

\* a failed ChromaStore() that is re-raised instead of falling back
TryChroma_NoFallback ==
    /\ factory.pc = "l27" /\ factory.st = "chroma"
    /\ factory' = [factory EXCEPT
                     !.constructed = Append(@, "chroma"),
                     !.pc = IF factory.chroma_ok THEN "returned" ELSE "raised",
                     !.result = IF factory.chroma_ok THEN ChromaStore ELSE "exception of ChromaStore()"]
    /\ UNCHANGED <<storeVars, chunkVars, threadVars, saver, callVars, moreVars>>

\* lines 27-34: return ChromaStore(**kwargs), or log and go on to the fallback
TryChroma ==
    /\ factory.pc = "l27" /\ factory.st = "chroma"
    /\ factory' = [factory EXCEPT
                     !.constructed = Append(@, "chroma"),
                     !.pc = IF factory.chroma_ok THEN "returned" ELSE "l35",
                     !.result = IF factory.chroma_ok THEN ChromaStore ELSE ""]
    /\ UNCHANGED <<storeVars, chunkVars, threadVars, saver, callVars, moreVars>>

\* lines 35-40: return FaissStore(**kwargs), or raise RuntimeError
FallbackFaiss ==
    /\ factory.pc = "l35"
    /\ factory' = [factory EXCEPT
                     !.constructed = Append(@, "faiss"),
                     !.pc = IF factory.faiss_ok THEN "returned" ELSE "raised",
                     !.result = IF factory.faiss_ok THEN FaissStoreInst ELSE NoStoreError]
    /\ UNCHANGED <<storeVars, chunkVars, threadVars, saver, callVars, moreVars>>

\* lines 41-47: return FaissStore(**kwargs), or log and re-raise its exception
TryFaiss ==
    /\ factory.pc = "l27" /\ factory.st = "faiss"
    /\ factory' = [factory EXCEPT
                     !.constructed = Append(@, "faiss"),
                     !.pc = IF factory.faiss_ok THEN "returned" ELSE "raised",
                     !.result = IF factory.faiss_ok THEN FaissStoreInst ELSE FaissInitError]
    /\ UNCHANGED <<storeVars, chunkVars, threadVars, saver, callVars, moreVars>>

\* lines 48-49: any other name
UnknownType ==
    /\ factory.pc = "l27" /\ factory.st \notin {"chroma", "faiss"}
    /\ factory' = [factory EXCEPT !.pc = "raised", !.result = UnknownTypeError]
    /\ UNCHANGED <<storeVars, chunkVars, threadVars, saver, callVars, moreVars>>

FactoryInit ==
    /\ StoreInit /\ ChunkerIdle /\ ThreadsIdle /\ saver = "idle" /\ MoreIdle /\ CallsIdle
    /\ \E env \in EnvTypes : factory = [IdleFactory EXCEPT !.env = env]

FactoryNext ==
    \/ \E store_type \in ArgTypes, chroma_ok \in BOOLEAN, faiss_ok \in BOOLEAN :
          GetVectorStore(store_type, chroma_ok, faiss_ok)
    \/ TryChroma
    \/ FallbackFaiss
    \/ TryFaiss
    \/ UnknownType

SpecFactory == FactoryInit /\ [][FactoryNext]_vars

\* the call is over
FactoryDone == factory.pc \in {"returned", "raised"}
\* the constructor of backend b can succeed in this call
CanConstruct(b) == IF b = "chroma" THEN factory.chroma_ok ELSE factory.faiss_ok
Alternate(b) == IF b = "chroma" THEN "faiss" ELSE "chroma"
InstanceOf(b) == IF b = "chroma" THEN ChromaStore ELSE FaissStoreInst
\* backend b's constructor was called at position p of the call
ConstructedAt(b, p) == p <= Len(factory.constructed) /\ factory.constructed[p] = b
Constructed(b) == \E p \in 1..Len(factory.constructed) : factory.constructed[p] = b

search(st, q, top_k) ==
    IF ~st.index.present THEN [raises |-> FALSE, results |-> {<<>>}]
    ELSE IF ~NativeSearchOk(st.index, q) THEN [raises |-> TRUE, results |-> {}]
    ELSE [raises |-> FALSE,
          results |-> {[p \in 1..Len(DI) |-> HitOf(st.meta, DI[p])] :
                          DI \in NativeSearch(st.index, q, top_k)}]

\* a/b <= c/d for scores kept as fractions
ScoreLeq(x, y) == x[1] * y[2] <= y[1] * x[2]

\* the slots of st whose vector is e
SlotsWithVector(st, e) == {k \in DOMAIN st.meta : st.index.vecs[k + 1] = e}

\* every score a stored entry can get for query q
StoredScores(st, q) == {Score(SqDist(q, st.index.vecs[k])) : k \in 1..NTotal(st.index)}

\* the first hit has the best score a stored entry can get, and that score is 1.0
BestHit(st, q, hits) ==
    /\ Len(hits) = 1
    /\ hits[1].score = <<1, 1>>
    /\ \A sc \in StoredScores(st, q) : ScoreLeq(sc, hits[1].score)

\* C11 as stated: after add_documents([c]), search(c.embedding, top_k=1) returns
\* exactly one hit, with c's chunk_id and the maximum score (1.0).
C11_AddThenSearchReturnsId ==
    [][\A c \in Docs :
          (AddDocuments(<<c>>, IOok) /\ ret'.ok)
          => LET after == [index |-> index', dim |-> dim', meta |-> meta', files |-> files']
                 found == search(after, c.embedding, 1)
             IN /\ ~found.raises
                /\ \A hits \in found.results :
                      BestHit(after, c.embedding, hits) /\ hits[1].chunk_id = c.chunk_id]_vars

\* C11 amended: after add_documents([c]), search(c.embedding, top_k=1) returns
\* exactly one hit with the maximum score 1.0; the hit is a stored entry whose
\* vector equals c.embedding, and it carries c's chunk_id whenever no entry
\* stored under another id has that same vector.
C11_AddThenSearchReturnsVector ==
    \A c \in Docs :
       LET r == add_documents(Store, <<c>>, IOok)
           found == search(r.st, c.embedding, 1)
       IN r.ret.ok
          => /\ ~found.raises
             /\ \A hits \in found.results :
                   /\ BestHit(r.st, c.embedding, hits)
                   /\ \E k \in SlotsWithVector(r.st, c.embedding) :
                         r.st.meta[k].chunk_id = hits[1].chunk_id
                   /\ (\A k \in SlotsWithVector(r.st, c.embedding) :
                          r.st.meta[k].chunk_id = c.chunk_id)
                      => hits[1].chunk_id = c.chunk_id

\* add_documents([c]) has just put c behind an entry of another id and another
\* vector, and the search for c's vector finds c
C11_Witness ==
    /\ ret.op = "add_documents" /\ ret.ok
    /\ Cardinality(DOMAIN meta) = 2
    /\ meta[0].chunk_id # meta[1].chunk_id
    /\ index.vecs[1] # index.vecs[2]
    /\ \A hits \in search(Store, index.vecs[2], 1).results :
          BestHit(Store, index.vecs[2], hits) /\ hits[1].chunk_id = meta[1].chunk_id

\* the calls of clear: every outcome of its two unlinks
UnlinkIOs == {io \in IOs : io.windex = "ok" /\ io.wmeta = "ok"}

\* no index, empty side table, no dimension
EmptyInMemory(st) == st.index = NoIndex /\ st.meta = EmptyMeta /\ st.dim = NoDim
NoFiles(st) == st.files = [index |-> NoFile, meta |-> NoFile]

\* search finds nothing, whatever the query
NoHits(st) ==
    \A q \in Vecs, top_k \in 1..MaxTopK :
       search(st, q, top_k) = [raises |-> FALSE, results |-> {<<>>}]

ChunkerRunning == cpc \in {"loop", "window"}
ChunkerReturned == cpc = "done" /\ text_sentences # <<>>

WordsOf(xs) == {xs[k] : k \in 1..Len(xs)}
\* the last n words of xs, all of xs if it has fewer
LastWords(xs, n) == WordsOf(LastN(xs, MinOf(n, Len(xs))))

\* how often word w is emitted, over all chunks
Occurrences(w) ==
    Cardinality({pk \in (1..Len(chunks)) \X (1..MaxSentWords * MaxSentences) :
                    pk[2] <= Len(chunks[pk[1]].text) /\ chunks[pk[1]].text[pk[2]] = w})

\* the chunks that hold words of sentence j
ChunksOfSentence(j) ==
    {p \in 1..Len(chunks) : WordsOf(chunks[p].text) \cap WordsOf(text_sentences[j]) # {}}

\* C13: every chunk emitted by split_into_chunks holds at most chunk_size
\* words: accumulated buffers, buffers seeded with overlap words, and windows
\* over an oversized sentence.
C13_ChunksWithinSize ==
    \A p \in 1..Len(chunks) : Len(chunks[p].text) <= chunk_size

\* a finished call with a small chunk_size that emitted three chunks or more,
\* one of them full
C13_Witness ==
    /\ ChunkerReturned /\ arg_chunk_size >= 2
    /\ Len(chunks) >= 3
    /\ \E p \in 1..Len(chunks) : Len(chunks[p].text) = chunk_size

\* C14: for every call with chunk_size >= 1, also with overlap >= chunk_size,
\* the overlap in use is strictly less than chunk_size, so the stride
\* chunk_size - overlap is at least 1 and every window step moves forward.
C14_OverlapBelowChunkSize ==
    /\ [](ChunkerRunning => (overlap < chunk_size /\ chunk_size - overlap >= 1))
    /\ [][cpc = "window" => word_idx' > word_idx]_vars

\* a call with overlap >= chunk_size whose window has moved on
C14_Witness ==
    /\ arg_chunk_size >= 1 /\ arg_overlap >= arg_chunk_size
    /\ cpc = "window" /\ word_idx > 0
    /\ overlap = chunk_size - 1

\* C15: with overlap = 0 consecutive chunks share no words: every word
\* occurrence of the input lands in exactly one chunk.
C15_ZeroOverlapSharesNothing ==
    (ChunkerReturned /\ arg_overlap = 0)
    => \A w \in WordsOf(Flatten(text_sentences)) : Occurrences(w) = 1

\* C16: for overlap > 0 and at least 2 chunks, every pair of consecutive
\* chunks overlaps: chunk i+1 repeats at least one of the last `overlap` words
\* of chunk i, also from a flushed buffer to the first window of an oversized
\* sentence and from the last window to the following buffer.
C16_ConsecutiveChunksOverlap ==
    (ChunkerReturned /\ arg_overlap > 0 /\ overlap > 0 /\ Len(chunks) >= 2)
    => \A p \in 1..Len(chunks) - 1 :
          LastWords(chunks[p].text, overlap) \cap WordsOf(chunks[p + 1].text) # {}

\* C17 as stated: a sentence of chunk_size words or more is always emitted as
\* more than one chunk, none of them longer than chunk_size words.
C17_OversizedAlwaysSplit ==
    ChunkerReturned
    => \A j \in 1..Len(text_sentences) :
          Len(text_sentences[j]) >= chunk_size
          => /\ Cardinality(ChunksOfSentence(j)) > 1
             /\ \A p \in ChunksOfSentence(j) : Len(chunks[p].text) <= chunk_size

\* C17 amended: a sentence of more than chunk_size words, or of exactly
\* chunk_size words when the overlap in use is positive, is emitted as more
\* than one chunk; a sentence of exactly chunk_size words with no overlap in
\* use is emitted as one chunk; none of the chunks is longer than chunk_size.
C17_OversizedSplitUnlessExact ==
    ChunkerReturned
    => \A j \in 1..Len(text_sentences) :
          Len(text_sentences[j]) >= chunk_size
          => /\ (Len(text_sentences[j]) > chunk_size \/ overlap > 0)
                   => Cardinality(ChunksOfSentence(j)) > 1
             /\ (Len(text_sentences[j]) = chunk_size /\ overlap <= 0)
                   => Cardinality(ChunksOfSentence(j)) = 1
             /\ \A p \in ChunksOfSentence(j) : Len(chunks[p].text) <= chunk_size

\* a finished call that cut a sentence of exactly chunk_size words into windows
C17_Witness ==
    /\ ChunkerReturned /\ arg_chunk_size >= 2
    /\ \E j \in 1..Len(text_sentences) :
          /\ Len(text_sentences[j]) = chunk_size
          /\ Cardinality(ChunksOfSentence(j)) > 1

(***************************************************************************)
(* Retriever (rag/retriever.py): search over the vector store it was       *)
(* constructed with, a FaissStore or another backend.                      *)
(***************************************************************************)
\* most hits another backend returns
MaxHits == 3
\* the top_k used when the argument is not positive
DefaultTopK == 5

\* similarity thresholds, as fractions
Mins == {<<0, 1>>, <<1, 2>>}
MinArgs == {NoMin} \cup {[given |-> TRUE, v |-> m] : m \in {<<0, 1>>, <<1, 2>>, <<1, 1>>}}
\* query vectors: empty, of the width of the stored vectors, of another width
RetrieverQueries == {<<>>, <<0>>, <<0, 0>>}
\* the docs a FaissStore behind the retriever is filled with
RetrieverDocs == {d \in Docs : d.text = "t1" /\ Len(d.embedding) = 1}
RetrieverDocLists == UNION {[1..n -> RetrieverDocs] : n \in 1..MaxBatch}

\* what another backend (ChromaStore.search) may return: hits in any order of
\* score, a score above 1 included, or an exception
OtherScores == {<<1, 2>>, <<1, 1>>, <<2, 1>>}
OtherHits == {[chunk_id |-> c, score |-> sc, text |-> "t1", meta |-> "m1"] :
                 c \in Ids, sc \in OtherScores}
OtherOutcomes ==
    {[raises |-> TRUE, results |-> <<>>]}
    \cup {[raises |-> FALSE, results |-> r] : r \in UNION {[1..n -> OtherHits] : n \in 0..MaxHits}}

ScoreLess(x, y) == x[1] * y[2] < y[1] * x[2]

\* RetrievedChunk(text=..., similarity=..., meta=..., chunk_id=...)
RetrievedChunk(result) ==
    [text |-> result.text, similarity |-> result.score, meta |-> result.meta,
     chunk_id |-> result.chunk_id]
\* the validation of the model: text a str, meta a dict, 0.0 <= similarity <= 1.0
RetrievedChunkOk(result) ==
    /\ result.text # NoneStr /\ result.meta # NoneStr
    /\ ScoreLeq(<<0, 1>>, result.score) /\ ScoreLeq(result.score, <<1, 1>>)

RECURSIVE CollectFrom(_, _, _, _)
\* lines 74-88: skip the results below min_sim, build a chunk of each other one;
\* a chunk that fails validation raises
CollectFrom(results, k, min_sim, acc) ==
    IF k > Len(results) THEN [raises |-> FALSE, chunks |-> acc]
    ELSE IF ScoreLess(results[k].score, min_sim)
         THEN CollectFrom(results, k + 1, min_sim, acc)
         ELSE IF ~RetrievedChunkOk(results[k]) THEN [raises |-> TRUE, chunks |-> <<>>]
              ELSE CollectFrom(results, k + 1, min_sim, Append(acc, RetrievedChunk(results[k])))

\* an insertion that puts x before the chunks of equal similarity
InsertDesc_BeforeEqual(sorted, x) ==
    LET before == {j \in 1..Len(sorted) : ScoreLeq(sorted[j].similarity, x.similarity)}
        at == IF before = {} THEN Len(sorted) + 1 ELSE CHOOSE j \in before : \A k \in before : j <= k
    IN SubSeq(sorted, 1, at - 1) \o <<x>> \o SubSeq(sorted, at, Len(sorted))

\* x put behind every chunk of greater or equal similarity
InsertDesc(sorted, x) ==
    LET before == {j \in 1..Len(sorted) : ScoreLess(sorted[j].similarity, x.similarity)}
        at == IF before = {} THEN Len(sorted) + 1 ELSE CHOOSE j \in before : \A k \in before : j <= k
    IN SubSeq(sorted, 1, at - 1) \o <<x>> \o SubSeq(sorted, at, Len(sorted))

RECURSIVE SortDescFrom(_, _, _)
SortDescFrom(seq, k, acc) ==
    IF k > Len(seq) THEN acc ELSE SortDescFrom(seq, k + 1, InsertDesc(acc, seq[k]))
\* line 91: sort(key=similarity, reverse=True), which is stable
SortDesc(seq) == SortDescFrom(seq, 1, <<>>)

\* lines 55-63: the empty query, the top_k default, the threshold in use
RetrieverBegin(query, top_k, min_similarity) ==
    /\ retriever.pc \in {"idle", "done"}
    /\ retriever' = [retriever EXCEPT
          !.query = query,
          !.top_k = IF top_k <= 0 THEN DefaultTopK ELSE top_k,
          !.min_arg = min_similarity,
          !.min_sim = IF min_similarity.given THEN min_similarity.v ELSE retriever.self_min,
          !.backend = [raises |-> FALSE, results |-> <<>>],
          !.out = <<>>, !.raised = FALSE,
          !.pc = IF query = <<>> THEN "done" ELSE "l67"]
    /\ UNCHANGED <<storeVars, chunkVars, threadVars, saver, factory, embedder, moreVars>>

\* line 67 on a FaissStore: self.vector_store.search(query_embedding, top_k=top_k)
RetrieverBackendFaiss ==
    /\ retriever.pc = "l67" /\ retriever.via = "faiss"
    /\ LET found == search(Store, retriever.query, retriever.top_k)
       IN IF found.raises
          THEN retriever' = [retriever EXCEPT !.backend = [raises |-> TRUE, results |-> <<>>],
                                              !.pc = "l100"]
          ELSE \E hits \in found.results :
                  retriever' = [retriever EXCEPT !.backend = [raises |-> FALSE, results |-> hits],
                                                 !.pc = "l69"]
    /\ UNCHANGED <<storeVars, chunkVars, threadVars, saver, factory, embedder, moreVars>>

\* line 67 on another backend
RetrieverBackendOther(outcome) ==
    /\ retriever.pc = "l67" /\ retriever.via = "other"
    /\ Len(outcome.results) <= retriever.top_k
    /\ retriever' = [retriever EXCEPT !.backend = outcome,
                                      !.pc = IF outcome.raises THEN "l100" ELSE "l69"]
    /\ UNCHANGED <<storeVars, chunkVars, threadVars, saver, factory, embedder, moreVars>>

\* lines 69-98: no results, or filter, build, sort and return
RetrieverCollect ==
    /\ retriever.pc = "l69"
    /\ LET got == CollectFrom(retriever.backend.results, 1, retriever.min_sim, <<>>)
       IN IF got.raises
          THEN retriever' = [retriever EXCEPT !.pc = "l100"]
          ELSE retriever' = [retriever EXCEPT !.out = SortDesc(got.chunks), !.pc = "done"]
    /\ UNCHANGED <<storeVars, chunkVars, threadVars, saver, factory, embedder, moreVars>>

\* lines 100-102: except Exception: log and return []
RetrieverExcept ==
    /\ retriever.pc = "l100"
    /\ retriever' = [retriever EXCEPT !.out = <<>>, !.raised = FALSE, !.pc = "done"]
    /\ UNCHANGED <<storeVars, chunkVars, threadVars, saver, factory, embedder, moreVars>>

\* Retriever(vector_store, min_similarity) over an empty FaissStore or another backend
RetrieverInit ==
    /\ StoreInit /\ ChunkerIdle /\ ThreadsIdle /\ saver = "idle" /\ MoreIdle /\ factory = IdleFactory
    /\ embedder = IdleEmbedder
    /\ \E via \in {"faiss", "other"}, m \in Mins :
          retriever = [IdleRetriever EXCEPT !.via = via, !.self_min = m]

RetrieverNext ==
    \/ /\ retriever.pc \in {"idle", "done"} /\ retriever.via = "faiss"
       /\ \E docs \in RetrieverDocLists : AddDocuments(docs, IOok)
    \/ \E query \in RetrieverQueries, top_k \in 0..MaxTopK, min_similarity \in MinArgs :
          RetrieverBegin(query, top_k, min_similarity)
    \/ RetrieverBackendFaiss
    \/ \E outcome \in OtherOutcomes : RetrieverBackendOther(outcome)
    \/ RetrieverCollect
    \/ RetrieverExcept

SpecRetriever == RetrieverInit /\ [][RetrieverNext]_vars

\* the threshold the call has to use
EffectiveMin == IF retriever.min_arg.given THEN retriever.min_arg.v ELSE retriever.self_min

\* out takes its chunks from distinct backend hits, equal scores in backend order
TakenInBackendOrder(out, results) ==
    \E f \in [1..Len(out) -> 1..Len(results)] :
       /\ \A i, j \in 1..Len(out) : i < j => f[i] # f[j]
       /\ \A i \in 1..Len(out) : out[i] = RetrievedChunk(results[f[i]])
       /\ \A i, j \in 1..Len(out) :
             (i < j /\ out[i].similarity = out[j].similarity) => f[i] < f[j]

\* C18: Retriever.search returns only hits whose score is >= the effective
\* min_similarity (the argument if given, else the instance's), ordered by
\* non-increasing score, hits of equal score in the order the backend returned
\* them, and never more hits than the backend returned for the clamped top_k.
C18_FilteredSortedStable ==
    retriever.pc = "done"
    => /\ \A i \in 1..Len(retriever.out) : ScoreLeq(EffectiveMin, retriever.out[i].similarity)
       /\ \A i \in 1..Len(retriever.out) - 1 :
             ScoreLeq(retriever.out[i + 1].similarity, retriever.out[i].similarity)
       /\ Len(retriever.out) <= Len(retriever.backend.results)
       /\ retriever.query # <<>> => retriever.top_k >= 1
       /\ TakenInBackendOrder(retriever.out, retriever.backend.results)

\* a call that dropped a hit below the threshold and moved two hits of equal
\* score, in backend order, in front of a lower one
C18_Witness ==
    /\ retriever.pc = "done" /\ retriever.min_arg.given
    /\ Len(retriever.backend.results) = 3 /\ Len(retriever.out) = 2
    /\ ScoreLess(retriever.backend.results[1].score, retriever.min_sim)
    /\ retriever.out[1].similarity = retriever.out[2].similarity
    /\ retriever.out[1].chunk_id # retriever.out[2].chunk_id

\* C19: when the backend rejects a search because the query vector is invalid
\* (its length differs from the store dimension), the error reaches the caller
\* of Retriever.search and is not turned into an ordinary empty result list.
C19_BackendErrorSurfaced ==
    (retriever.pc = "done" /\ retriever.via = "faiss" /\ retriever.backend.raises)
    => retriever.raised

(***************************************************************************)
(* embed_texts and embed_chunks (embeddings/embedder.py).  A text is named *)
(* by its position in the input; a vector records the text it was made     *)
(* for and who made it.                                                    *)
(***************************************************************************)
\* most texts of one call
MaxTexts == 34
\* EMBEDDING_BATCH_SIZE, by default
BATCH_SIZE == 32

\* what client.embed(batch) does: one vector per text, none, one too few, one
\* too many, or an exception
ClientBehaviours == {"exact", "none", "few", "many", "raise"}

ModelVector(t) == [of |-> t, by |-> "model"]
\* _fallback_vector(text)
FallbackVector(t) == [of |-> t, by |-> "fallback"]
\* a vector the client returned beyond the texts of the batch
SurplusVector == [of |-> 0, by |-> "model"]

\* the list client.embed(batch) returns
ClientVectors(batch, behaviour) ==
    CASE behaviour = "exact" -> [k \in 1..Len(batch) |-> ModelVector(batch[k])]
      [] behaviour = "none" -> <<>>
      [] behaviour = "few" -> [k \in 1..Len(batch) - 1 |-> ModelVector(batch[k])]
      [] OTHER -> [k \in 1..Len(batch) + 1 |->
                      IF k <= Len(batch) THEN ModelVector(batch[k]) ELSE SurplusVector]

\* [_fallback_vector(t) for t in texts[have:]]
FallbackFrom(texts, have) ==
    IF have >= Len(texts) THEN <<>>
    ELSE [k \in 1..Len(texts) - have |-> FallbackVector(texts[have + k])]

\* lines 96-114: the vectors one batch adds to results
BatchVectors(batch, behaviour) ==
    IF behaviour = "raise" THEN [k \in 1..Len(batch) |-> FallbackVector(batch[k])]
    ELSE LET vecs == ClientVectors(batch, behaviour)
         IN IF Len(vecs) # Len(batch)
            THEN vecs \o FallbackFrom(batch, Len(vecs))
            ELSE vecs

\* embed_chunks(chunks) up to its call of embed_texts(texts), lines 137-144 and 86-91
EmbedChunks(n) ==
    /\ embedder.pc \in {"idle", "done"}
    /\ embedder' = [pc |-> IF n = 0 THEN "done" ELSE "batch", texts |-> [k \in 1..n |-> k],
                    i |-> 0, results |-> <<>>, pairs |-> <<>>]
    /\ UNCHANGED <<storeVars, chunkVars, threadVars, saver, factory, retriever, moreVars>>

\* lines 93-118: one batch of embed_texts
EmbedBatch(behaviour) ==
    /\ embedder.pc = "batch"
    /\ LET batch == Slice(embedder.texts, embedder.i, embedder.i + BATCH_SIZE)
       IN embedder' = [embedder EXCEPT
             !.results = @ \o BatchVectors(batch, behaviour),
             !.i = @ + BATCH_SIZE,
             !.pc = IF embedder.i + BATCH_SIZE >= Len(embedder.texts) THEN "pair" ELSE "batch"]
    /\ UNCHANGED <<storeVars, chunkVars, threadVars, saver, factory, retriever, moreVars>>

\* lines 146-185 of embed_chunks: pad when vectors are missing, then zip
EmbedPair ==
    /\ embedder.pc = "pair"
    /\ LET n == Len(embedder.texts)
           embeddings == embedder.results \o FallbackFrom(embedder.texts, Len(embedder.results))
       IN embedder' = [embedder EXCEPT
             !.pairs = [k \in 1..MinOf(n, Len(embeddings)) |->
                          [chunk |-> embedder.texts[k], embedding |-> embeddings[k]]],
             !.pc = "done"]
    /\ UNCHANGED <<storeVars, chunkVars, threadVars, saver, factory, retriever, moreVars>>

EmbedderInit ==
    /\ StoreInit /\ ChunkerIdle /\ ThreadsIdle /\ saver = "idle" /\ MoreIdle /\ factory = IdleFactory
    /\ CallsIdle

EmbedderNext ==
    \/ \E n \in 0..MaxTexts : EmbedChunks(n)
    \/ \E behaviour \in ClientBehaviours : EmbedBatch(behaviour)
    \/ EmbedPair

SpecEmbedder == EmbedderInit /\ [][EmbedderNext]_vars

\* C20: embed_texts returns exactly one vector per input text, in input order,
\* whatever the client does on each batch (right count, too few, too many,
\* exception); so embed_chunks pairs every chunk with the vector of its text.
C20_OneVectorPerText ==
    /\ embedder.pc \in {"pair", "done"}
       => /\ Len(embedder.results) = Len(embedder.texts)
          /\ \A k \in 1..Len(embedder.results) : embedder.results[k].of = embedder.texts[k]
    /\ embedder.pc = "done"
       => /\ Len(embedder.pairs) = Len(embedder.texts)
          /\ \A k \in 1..Len(embedder.pairs) :
                embedder.pairs[k].embedding.of = embedder.pairs[k].chunk


(***************************************************************************)
(* The collection-based store (vectorstore/chroma_store.py).  The engine   *)
(* behind self._collection is a library: the model gives it the behaviours *)
(* its releases have.  add() of an id the collection already holds raises  *)
(* in the releases the old client API belongs to ("rejects"), and skips    *)
(* that id without an error in the releases with PersistentClient          *)
(* ("ignores").  Both reject a batch that names an id twice and a vector   *)
(* whose width differs from the collection's.                              *)
(***************************************************************************)
ChromaEngines == {"rejects", "ignores"}

\* the doc lists of a call on the collection: non-empty lists of well-formed docs,
\* and the one-element lists of a doc without embedding
ChromaDocs == {d \in Docs : d.embedding \in {<<0>>, <<1>>, <<0, 0>>}}
ChromaDocLists == UNION {[1..n -> ChromaDocs] : n \in 1..MaxBatch} \cup {<<d>> : d \in KeylessDocs}

\* _validate_docs: every doc has "chunk_id" and "embedding"
chroma_validate_docs(docs) == \A k \in 1..Len(docs) : docs[k].embedding # NoKey

\* what the collection keeps of one doc: documents, metadatas, embeddings
ChromaRec(d) == [text |-> d.text, meta |-> d.meta, embedding |-> d.embedding]

\* self._collection.add(ids, documents, metadatas, embeddings)
CollectionAdd(c, docs) ==
    LET n == Len(docs)
        d == IF c.cdim # NoDim THEN c.cdim ELSE Len(docs[1].embedding)
        twice == \E j, k \in 1..n : j < k /\ docs[j].chunk_id = docs[k].chunk_id
        wrong == \E k \in 1..n : Len(docs[k].embedding) # d
        held == {k \in 1..n : docs[k].chunk_id \in DOMAIN c.coll}
        fresh == {docs[k].chunk_id : k \in (1..n) \ held}
    IN IF twice \/ wrong \/ (c.engine = "rejects" /\ held # {})
       THEN [ok |-> FALSE, c |-> c]
       ELSE [ok |-> TRUE,
             c |-> [c EXCEPT
                !.coll = [i \in DOMAIN c.coll \cup fresh |->
                            IF i \in DOMAIN c.coll
                            THEN c.coll[i]
                            ELSE ChromaRec(docs[CHOOSE k \in 1..n : docs[k].chunk_id = i])],
                !.cdim = d]]

\* self._collection.delete(ids=ids): the entries go, or the engine fails
CollectionDelete(c, ids, delete_ok) ==
    IF delete_ok
    THEN [ok |-> TRUE, c |-> [c EXCEPT !.coll = [i \in DOMAIN c.coll \ ids |-> c.coll[i]]]]
    ELSE [ok |-> FALSE, c |-> c]

\* ChromaStore.add_documents: validate, add, persist (never fatal); re-raises what add raised
chroma_add_documents(c, docs) ==
    IF ~chroma_validate_docs(docs)
    THEN [ok |-> FALSE, c |-> c]
    ELSE CollectionAdd(c, docs)

\* ChromaStore.delete: re-raises what the engine raised
chroma_delete(c, ids, delete_ok) == CollectionDelete(c, ids, delete_ok)

\* ChromaStore.upsert_documents: add; when that raised, delete the ids (a failing
\* delete is logged only) and add again
chroma_upsert_documents(c, docs, delete_ok) ==
    IF ~chroma_validate_docs(docs)
    THEN [ok |-> FALSE, c |-> c]
    ELSE LET first == chroma_add_documents(c, docs)
         IN IF first.ok
            THEN first
            ELSE LET ids == {docs[k].chunk_id : k \in 1..Len(docs)}
                     gone == chroma_delete(c, ids, delete_ok)
                 IN chroma_add_documents(gone.c, docs)

ChromaApply(op, r) ==
    /\ chroma' = [r.c EXCEPT !.ret = [op |-> op, ok |-> r.ok], !.found = <<>>, !.hits = <<>>]
    /\ UNCHANGED <<storeVars, chunkVars, threadVars, saver, factory, callVars, tokenizer, rebuilder>>

ChromaAdd(docs) == ChromaApply("add_documents", chroma_add_documents(chroma, docs))
ChromaUpsert(docs, delete_ok) ==
    ChromaApply("upsert_documents", chroma_upsert_documents(chroma, docs, delete_ok))
ChromaDelete(ids, delete_ok) == ChromaApply("delete", chroma_delete(chroma, ids, delete_ok))

\* Distances as the engine reports them, in halves: the scale depends on the
\* collection's metric (squared L2 and cosine are never negative, inner product
\* can be).  A distance that is not a number is NoneDist.
ChromaDistances == {[num |-> TRUE, v |-> <<n, 2>>] : n \in (0 - 1)..4}
NoneDist == [num |-> FALSE, v |-> <<0, 1>>]

\* x < y and x <= y for distances that are numbers
DistLess(x, y) == x.v[1] * y.v[2] < y.v[1] * x.v[2]
DistLeq(x, y) == x.v[1] * y.v[2] <= y.v[1] * x.v[2]

\* self._collection.query(query_embeddings, n_results=top_k): up to top_k of the
\* held ids, nearest first, each with its distance
QueryResults(c, top_k) ==
    LET n == MinOf(top_k, Cardinality(DOMAIN c.coll))
    IN {r \in [1..n -> [id : DOMAIN c.coll, dist : ChromaDistances \cup {NoneDist}]] :
          /\ \A j, k \in 1..n : j < k => r[j].id # r[k].id
          /\ \A j, k \in 1..n : (j < k /\ r[j].dist.num /\ r[k].dist.num)
                                   => DistLeq(r[j].dist, r[k].dist)}

\* lines 161-167: distance to score
ChromaScore_NoRescale(dist) ==
    IF dist.num THEN <<dist.v[2] - dist.v[1], dist.v[2]>> ELSE <<0, 1>>

ChromaScore(dist) ==
    LET score == IF dist.num THEN <<dist.v[2] - dist.v[1], dist.v[2]>> ELSE <<0, 1>>
    IN IF score[1] < 0
       THEN <<dist.v[2], dist.v[2] + dist.v[1]>>
       ELSE score

\* lines 159-168: one hit per row of the engine's answer
ChromaHits(c, found) ==
    [k \in 1..Len(found) |->
        [chunk_id |-> found[k].id, score |-> ChromaScore(found[k].dist),
         text |-> c.coll[found[k].id].text, meta |-> c.coll[found[k].id].meta]]

\* ChromaStore.search
ChromaSearch(top_k, found) ==
    /\ found \in QueryResults(chroma, top_k)
    /\ chroma' = [chroma EXCEPT !.found = found, !.hits = ChromaHits(chroma, found),
                                !.ret = [op |-> "search", ok |-> TRUE]]
    /\ UNCHANGED <<storeVars, chunkVars, threadVars, saver, factory, callVars, tokenizer, rebuilder>>

\* ChromaStore.__init__ on a new collection, over either engine
ChromaInit ==
    /\ StoreInit /\ ChunkerIdle /\ ThreadsIdle /\ saver = "idle" /\ factory = IdleFactory
    /\ CallsIdle /\ tokenizer = IdleTokenizer /\ rebuilder = IdleRebuilder
    /\ \E e \in ChromaEngines : chroma = [IdleChroma EXCEPT !.engine = e]

ChromaNext ==
    \/ \E docs \in ChromaDocLists : ChromaAdd(docs)
    \/ \E docs \in ChromaDocLists, delete_ok \in BOOLEAN : ChromaUpsert(docs, delete_ok)
    \/ \E ids \in SUBSET Ids, delete_ok \in BOOLEAN : ChromaDelete(ids, delete_ok)
    \/ \E top_k \in 1..MaxTopK :
          \E found \in QueryResults(chroma, top_k) : ChromaSearch(top_k, found)

SpecChroma == ChromaInit /\ [][ChromaNext]_vars

\* C21: when upsert_documents returns normally, every id of docs is held with
\* the vector, text and metadata of docs, and the other entries are as before.
C21_UpsertStoresGivenDocs ==
    \A docs \in ChromaDocLists, delete_ok \in BOOLEAN :
       LET r == chroma_upsert_documents(chroma, docs, delete_ok)
           ids == {docs[k].chunk_id : k \in 1..Len(docs)}
       IN r.ok =>
            /\ DOMAIN r.c.coll = DOMAIN chroma.coll \cup ids
            /\ \A k \in 1..Len(docs) : r.c.coll[docs[k].chunk_id] = ChromaRec(docs[k])
            /\ \A i \in DOMAIN chroma.coll \ ids : r.c.coll[i] = chroma.coll[i]

\* C22: when upsert_documents raises, the collection holds what it held before
\* the call, the earlier versions of the ids of docs included.
C22_FailedUpsertKeepsEntries ==
    \A docs \in ChromaDocLists, delete_ok \in BOOLEAN :
       LET r == chroma_upsert_documents(chroma, docs, delete_ok)
       IN ~r.ok => r.c.coll = chroma.coll

\* the hits of the last search whose distance is a number
NumberedHits == {k \in 1..Len(chroma.hits) : chroma.found[k].dist.num}
\* 1 - d and 1 / (1 + d) for a distance d = n / m
OneMinus(d) == <<d.v[2] - d.v[1], d.v[2]>>
Reciprocal(d) == <<d.v[2], d.v[2] + d.v[1]>>
SameScore(x, y) == x[1] * y[2] = y[1] * x[2]
InUnitInterval(d) == 0 <= d.v[1] /\ d.v[1] <= d.v[2]

C28_NearerNeverScoresLower ==
    \A j, k \in NumberedHits :
       DistLess(chroma.found[j].dist, chroma.found[k].dist)
          => ~ScoreLess(chroma.hits[j].score, chroma.hits[k].score)

(***************************************************************************)
(* A FaissStore constructed over a directory that earlier calls wrote.     *)
(***************************************************************************)
\* most vectors the index is driven to across constructions
MaxLoaded == 3

\* _load_index_and_meta: the side table from the meta file and the index from
\* the index file, each on its own; a missing or unreadable file gives the
\* empty value of its half
load_index_and_meta(fs) ==
    [meta |-> IF fs.meta.state = "ok" THEN fs.meta.table ELSE EmptyMeta,
     index |-> IF fs.index.state = "ok"
               THEN [present |-> TRUE, d |-> fs.index.d, vecs |-> fs.index.vecs]
               ELSE NoIndex,
     dim |-> IF fs.index.state = "ok" THEN fs.index.d ELSE NoDim]

\* FaissStore.__init__ over the directory as it is
Construct ==
    /\ LET loaded == load_index_and_meta(files)
       IN /\ index' = loaded.index
          /\ dim' = loaded.dim
          /\ meta' = loaded.meta
    /\ ret' = [op |-> "init", ok |-> TRUE, err |-> "", rebuilt |-> FALSE]
    /\ UNCHANGED <<files, chunkVars, threadVars, saver, factory, callVars, moreVars>>

LoadInit ==
    /\ StoreInit /\ ChunkerIdle /\ ThreadsIdle /\ saver = "idle" /\ MoreIdle /\ factory = IdleFactory /\ CallsIdle

LoadNext ==
    \/ \E docs \in SaveDocLists, io \in WriteIOs :
          NTotal(index) + Len(docs) <= MaxLoaded /\ AddDocuments(docs, io)
    \/ \E io \in UnlinkIOs : Clear(io)
    \/ Construct

SpecLoad == LoadInit /\ [][LoadNext]_vars

\* exactly one of the two files is missing or unreadable
OneSided(fs) == (fs.index.state = "ok") # (fs.meta.state = "ok")

\* C24: a store constructed over a directory with exactly one of the two files
\* missing or unreadable has as many side-table entries as index vectors, keeps
\* that under a later add_documents, and search for the vector of an added doc
\* returns that doc's chunk_id at distance 0.
C24_OneSidedLoadConsistent ==
    (ret.op = "init" /\ OneSided(files)) =>
       /\ Cardinality(DOMAIN meta) = NTotal(index)
       /\ \A docs \in SaveDocLists :
             LET r == add_documents(Store, docs, IOok)
             IN r.ret.ok =>
                  /\ Cardinality(DOMAIN r.st.meta) = NTotal(r.st.index)
                  /\ \A k \in 1..Len(docs) :
                        \A hits \in search(r.st, docs[k].embedding, NTotal(r.st.index)).results :
                           \E p \in 1..Len(hits) :
                              hits[p].chunk_id = docs[k].chunk_id /\ hits[p].score = <<1, 1>>

\* C25: after any add_documents and upsert_documents calls no two side-table
\* slots carry the same chunk_id.
C25_ChunkIdStoredOnce ==
    \A j, k \in DOMAIN meta : j # k => meta[j].chunk_id # meta[k].chunk_id

(***************************************************************************)
(* The regex sentence splitter (ingestion/chunker.py).  A text is a        *)
(* sequence of characters: two letters, one sentence terminator, one       *)
(* whitespace character.                                                   *)
(***************************************************************************)
\* longest text
MaxTextLen == 5

Letters == {"a", "b"}
Terminators == {"."}
Whitespace == {" "}
Texts == UNION {[1..n -> Letters \cup Terminators \cup Whitespace] : n \in 0..MaxTextLen}

\* how many characters of class cls follow each other from position i
RECURSIVE RunLen(_, _, _)
RunLen(text, i, cls) ==
    IF i > Len(text) \/ text[i] \notin cls THEN 0
    ELSE 1 + RunLen(text, i + 1, cls)

\* the length of the match of [.!?]+\s+ that starts at position i, 0 when none
MatchAt(text, i) ==
    LET t == RunLen(text, i, Terminators)
        s == RunLen(text, i + t, Whitespace)
    IN IF t > 0 /\ s > 0 THEN t + s ELSE 0

\* re.split with a capturing group: text, separator, text, ..., text
RECURSIVE ReSplitFrom(_, _, _, _)
ReSplitFrom(text, i, start, acc) ==
    IF i > Len(text) THEN Append(acc, SubSeq(text, start, Len(text)))
    ELSE IF MatchAt(text, i) > 0
    THEN ReSplitFrom(text, i + MatchAt(text, i), i + MatchAt(text, i),
                     acc \o <<SubSeq(text, start, i - 1), SubSeq(text, i, i + MatchAt(text, i) - 1)>>)
    ELSE ReSplitFrom(text, i + 1, start, acc)
ReSplit(text) == ReSplitFrom(text, 1, 1, <<>>)

\* str.strip()
Strip(s) ==
    LET inner == {k \in 1..Len(s) : s[k] \notin Whitespace}
    IN IF inner = {} THEN <<>> ELSE SubSeq(s, Min(inner), Max(inner))

\* the elements of seq that are not empty, in order
RECURSIVE NonEmpty(_)
NonEmpty(seq) ==
    IF seq = <<>> THEN <<>>
    ELSE IF Head(seq) = <<>> THEN NonEmpty(Tail(seq))
    ELSE <<Head(seq)>> \o NonEmpty(Tail(seq))

\* lines 37-42: for i in range(0, len(sentences) - 1, 2): pair piece i with
\* the separator after it
Recombine(sentences) ==
    [k \in 1..(Len(sentences) - 1) \div 2 |-> sentences[2 * k - 1] \o sentences[2 * k]]

\* _simple_sentence_tokenize
simple_sentence_tokenize(text) ==
    LET result == Recombine(ReSplit(text))
    IN NonEmpty([k \in 1..Len(result) |-> Strip(result[k])])

Tokenize(text) ==
    /\ tokenizer' = [pc |-> "done", text |-> text, sentences |-> simple_sentence_tokenize(text)]
    /\ UNCHANGED <<storeVars, chunkVars, threadVars, saver, factory, callVars, chroma, rebuilder>>

TokenizerInit ==
    /\ StoreInit /\ ChunkerIdle /\ ThreadsIdle /\ saver = "idle" /\ MoreIdle /\ factory = IdleFactory /\ CallsIdle

TokenizerNext == \E text \in Texts : Tokenize(text)

SpecTokenizer == TokenizerInit /\ [][TokenizerNext]_vars

\* str.split(): the words of s
RECURSIVE SplitFrom(_, _)
SplitFrom(s, i) ==
    IF i > Len(s) THEN <<>>
    ELSE IF s[i] \in Whitespace THEN SplitFrom(s, i + 1)
    ELSE LET n == Min({k \in i..Len(s) + 1 : k > Len(s) \/ s[k] \in Whitespace})
         IN <<SubSeq(s, i, n - 1)>> \o SplitFrom(s, n)
SplitWords(s) == SplitFrom(s, 1)

\* the words of all sentences, in order
RECURSIVE WordsOfAll(_)
WordsOfAll(sentences) ==
    IF sentences = <<>> THEN <<>>
    ELSE SplitWords(Head(sentences)) \o WordsOfAll(Tail(sentences))

\* C26: the sentences _simple_sentence_tokenize returns contain every word of
\* the text, in order, the text after the last terminator and a text without
\* terminator included.
C26_TokenizerKeepsEveryWord ==
    tokenizer.pc = "done" => WordsOfAll(tokenizer.sentences) = SplitWords(tokenizer.text)

\* the words of the text, in input order
InputWords == Flatten(text_sentences)
\* the words of chunk p ascend in input order
ChunkInOrder(p) ==
    \A a, b \in 1..Len(chunks[p].text) : a < b => chunks[p].text[a] < chunks[p].text[b]
\* chunk q neither starts nor ends before chunk p does
ChunkNotBefore(p, q) ==
    /\ chunks[p].text[1] <= chunks[q].text[1]
    /\ chunks[p].text[Len(chunks[p].text)] <= chunks[q].text[Len(chunks[q].text)]

\* C27: when split_into_chunks returns, every word occurrence of every sentence
\* is in at least one chunk, and the chunks in chunk_index order present the
\* words in input order.
C27_NoWordDroppedOrReordered ==
    ChunkerReturned =>
       /\ \A w \in WordsOf(InputWords) : Occurrences(w) >= 1
       /\ \A p \in 1..Len(chunks) : chunks[p].text # <<>> /\ ChunkInOrder(p)
       /\ \A p, q \in 1..Len(chunks) : p < q => ChunkNotBefore(p, q)
       /\ \A p \in 1..Len(chunks) : chunks[p].chunk_index = p - 1

\* a finished call that flushed a buffer, seeded the next one with a word of a
\* short sentence, and slid a window over a sentence longer than chunk_size
C27_Witness ==
    /\ ChunkerReturned /\ Len(chunks) >= 3
    /\ \E j \in 1..Len(text_sentences), p \in 2..Len(chunks) :
          /\ Len(text_sentences[j]) < chunk_size
          /\ chunks[p].text[1] \in WordsOf(text_sentences[j])
          /\ chunks[p].text[1] \in WordsOf(chunks[p - 1].text)
    /\ \E j \in 1..Len(text_sentences) : Len(text_sentences[j]) > chunk_size
    /\ \E p \in 1..Len(chunks) :
          Cardinality({j \in 1..Len(text_sentences) : p \in ChunksOfSentence(j)}) >= 2

\* the chunks of `out`, as a set
ReturnedChunks == {retriever.out[k] : k \in 1..Len(retriever.out)}

\* C29: Retriever.search returns every backend hit whose score is >= the
\* threshold in use and that can be converted; a hit that cannot be converted
\* (score above 1, no text) does not make it drop the others.
C29_OneBadHitDropsNoOther ==
    (retriever.pc = "done" /\ retriever.query # <<>> /\ ~retriever.backend.raises)
    => \A k \in 1..Len(retriever.backend.results) :
          LET hit == retriever.backend.results[k]
          IN (~ScoreLess(hit.score, retriever.min_sim) /\ RetrievedChunkOk(hit))
                => RetrievedChunk(hit) \in ReturnedChunks

(***************************************************************************)
(* rebuild_index (ingestion/index_rebuilder.py) over a FaissStore          *)
(* directory: the clear step and the ingestion run each construct their    *)
(* own store over the directory.                                           *)
(***************************************************************************)
\* chunks of earlier runs, and chunks of the run that rebuild_index starts
OldDocs == {d \in Docs : d.text = "t1" /\ Len(d.embedding) = 1}
NewDocs == {d \in Docs : d.text = "t2" /\ Len(d.embedding) = 1}
OldDocLists == UNION {[1..n -> OldDocs] : n \in 1..MaxBatch}
NewDocLists == UNION {[1..n -> NewDocs] : n \in 1..MaxBatch}

\* an earlier ingestion run inserted a batch
RebuildSeed(docs, io) ==
    /\ rebuilder.pc = "idle"
    /\ NTotal(index) + Len(docs) <= MaxLoaded
    /\ AddDocuments(docs, io)

\* rebuild_index(force=...)
RebuildBegin(force) ==
    /\ rebuilder.pc = "idle"
    /\ rebuilder' = [pc |-> IF force THEN "l50" ELSE "l64", force |-> force,
                     cleared |-> FALSE, inserted_total |-> 0]
    /\ UNCHANGED <<storeVars, chunkVars, threadVars, saver, factory, callVars, chroma, tokenizer>>

\* lines 52-58: get_vector_store() and clear() on it; an exception of either
\* is logged and the call goes on
RebuildClear(construct_ok, io) ==
    /\ rebuilder.pc = "l50"
    /\ IF construct_ok
       THEN LET loaded == load_index_and_meta(files)
                r == clear([index |-> loaded.index, dim |-> loaded.dim, meta |-> loaded.meta,
                            files |-> files], io)
            IN /\ index' = r.st.index /\ dim' = r.st.dim /\ meta' = r.st.meta
               /\ files' = r.st.files /\ ret' = r.ret
       ELSE UNCHANGED storeVars
    /\ rebuilder' = [rebuilder EXCEPT !.cleared = construct_ok, !.pc = "l64"]
    /\ UNCHANGED <<chunkVars, threadVars, saver, factory, callVars, chroma, tokenizer>>

\* run_ingestion_pipeline lines 79-160: nothing to ingest returns at once,
\* else the run constructs its store over the directory; a failing
\* construction ends the run in its except block
RebuildOpen(has_chunks, construct_ok) ==
    /\ rebuilder.pc = "l64"
    /\ IF has_chunks /\ construct_ok
       THEN LET loaded == load_index_and_meta(files)
            IN /\ index' = loaded.index /\ dim' = loaded.dim /\ meta' = loaded.meta
               /\ ret' = [op |-> "init", ok |-> TRUE, err |-> "", rebuilt |-> FALSE]
               /\ UNCHANGED files
       ELSE UNCHANGED storeVars
    /\ rebuilder' = [rebuilder EXCEPT !.pc = IF has_chunks /\ construct_ok THEN "l178" ELSE "done"]
    /\ UNCHANGED <<chunkVars, threadVars, saver, factory, callVars, chroma, tokenizer>>

\* lines 178-193: one batch through insert_chunks; a batch that raises is
\* logged and skipped
RebuildInsert(docs, io) ==
    /\ rebuilder.pc = "l178"
    /\ NTotal(index) + Len(docs) <= MaxLoaded
    /\ LET r == add_documents(Store, docs, io)
       IN /\ Cardinality(DOMAIN r.st.meta) <= MaxSlots
          /\ index' = r.st.index /\ dim' = r.st.dim /\ meta' = r.st.meta
          /\ files' = r.st.files /\ ret' = r.ret
          /\ rebuilder' = [rebuilder EXCEPT
                !.inserted_total = @ + (IF r.ret.ok THEN Len(docs) ELSE 0)]
    /\ UNCHANGED <<chunkVars, threadVars, saver, factory, callVars, chroma, tokenizer>>

\* lines 197-218: persist and return
RebuildPersist(io) ==
    /\ rebuilder.pc = "l178"
    /\ LET r == persist(Store, io)
       IN /\ files' = r.st.files /\ ret' = r.ret
          /\ UNCHANGED <<index, dim, meta>>
    /\ rebuilder' = [rebuilder EXCEPT !.pc = "done"]
    /\ UNCHANGED <<chunkVars, threadVars, saver, factory, callVars, chroma, tokenizer>>

RebuildInit ==
    /\ StoreInit /\ ChunkerIdle /\ ThreadsIdle /\ saver = "idle" /\ MoreIdle /\ factory = IdleFactory /\ CallsIdle

RebuildNext ==
    \/ \E docs \in OldDocLists, io \in WriteIOs : RebuildSeed(docs, io)
    \/ \E force \in BOOLEAN : RebuildBegin(force)
    \/ \E construct_ok \in BOOLEAN, io \in UnlinkIOs : RebuildClear(construct_ok, io)
    \/ \E has_chunks \in BOOLEAN, construct_ok \in BOOLEAN : RebuildOpen(has_chunks, construct_ok)
    \/ \E docs \in NewDocLists, io \in WriteIOs : RebuildInsert(docs, io)
    \/ \E io \in WriteIOs : RebuildPersist(io)

SpecRebuild == RebuildInit /\ [][RebuildNext]_vars

\* side-table entries of an earlier run
OldEntries(m) == {k \in DOMAIN m : m[k].text = "t1"}

\* C30: rebuild_index(force=True) clears the store before it inserts any chunk
\* of the new run, and when it returns neither the store of the run nor the
\* directory holds an entry of an earlier run, whatever clear() met.
C30_RebuildLeavesOnlyNewChunks ==
    rebuilder.force =>
       /\ rebuilder.inserted_total > 0 => rebuilder.cleared
       /\ rebuilder.pc = "done" =>
             /\ rebuilder.inserted_total > 0 =>
                   (OldEntries(meta) = {} /\ NTotal(index) = rebuilder.inserted_total)
             /\ files.meta.state = "ok" => OldEntries(files.meta.table) = {}
             /\ files.index.state = "ok" => Len(files.index.vecs) <= rebuilder.inserted_total
=============================================================================
